---- MODULE Spec2Model ----
(***************************************************************************)
(* Embedded-language multiplexing core of the htmlx language server:       *)
(* region extraction (EmbeddedDocument.getRegions), the region index       *)
(* (HTMLDocumentRegions) and single-target dispatch (LanguageService).     *)
(*                                                                         *)
(* Text is a sequence of one-character strings; offsets are 0-based as in  *)
(* the source, so the character at offset i is text[i + 1].                *)
(***************************************************************************)
EXTENDS Integers, Sequences, FiniteSets, TLC

\* ---------------------------------------------------------------- bounds
\* Largest number of start tags in a scanned document.
MaxTags == 3
\* Largest number of attributes in a scanned document.
MaxAttrs == 1
\* The same two for the documents the region index is asked about.
MaxCallTags == 2
MaxCallAttrs == 1
\* The same two for the documents the language service is called on.
MaxServiceTags == 1
MaxServiceAttrs == 1
\* Largest length of a document a region index is constructed over, and
\* largest number of its regions.
MaxLen == 3
MaxRegions == 2
\* Largest number of folding ranges limitRanges is given, their largest line,
\* and the largest maximum it is given.
MaxFoldings == 3
MaxLine == 2
MaxLimit == 3
\* Largest number of folding ranges the host backend answers.
MaxHostFoldings == 2
\* Largest document format is given, largest number of its embedded regions,
\* and largest number of embedded regions in format's temporary document.
MaxFormatLen == 2
MaxFormatRegions == 1
MaxTemporaryRegions == 1
\* Largest line, character, length, type index and modifier set of a semantic
\* token, largest number of tokens and of requested ranges encodeTokens is given.
MaxTokenLine == 1
MaxTokenCharacter == 1
MaxTokenLength == 2
MaxTypeIdx == 1
MaxModifierSet == 0
MaxTokens == 2
MaxRequestRanges == 2
\* Largest number of backends the token unifier is built over, and largest
\* number of types and of modifiers in a backend's legend.
MaxBackends == 2
MaxLegendTypes == 2
MaxLegendModifiers == 1
MaxUris == 3
MaxVersion == 2
MaxTime == 3
maxEntries == 2
cleanupInterval == 2
MaxServerUris == 2
MaxSources == 2
MaxScheduled == 3
Closed == 0
InitDocument == [uri |-> "init", version |-> 1, text |-> <<>>]
ServerUris == {<<"a", "b", "c">>[i] : i \in 1..MaxServerUris}

\* ------------------------------------------------------------ characters
LT == "<"
GT == ">"
EQ == "="
SL == "/"
SP == " "
NL == "\n"
DQ == "\""
SQ == "'"

N_a == <<"a">>
N_script == <<"s", "c", "r", "i", "p", "t">>
N_style == <<"s", "t", "y", "l", "e">>
N_onClick == <<"o", "n", "C", "l", "i", "c", "k">>
N_src == <<"s", "r", "c">>
N_type == <<"t", "y", "p", "e">>
T_module == <<"m", "o", "d", "u", "l", "e">>
T_textJavascript == <<"t", "e", "x", "t", "/", "j", "a", "v", "a", "s", "c", "r", "i", "p", "t">>
T_applicationJavascript == <<"a", "p", "p", "l", "i", "c", "a", "t", "i", "o", "n", "/", "j", "a", "v", "a", "s", "c", "r", "i", "p", "t">>
T_textEcmascript == <<"t", "e", "x", "t", "/", "e", "c", "m", "a", "s", "c", "r", "i", "p", "t">>
T_applicationEcmascript == <<"a", "p", "p", "l", "i", "c", "a", "t", "i", "o", "n", "/", "e", "c", "m", "a", "s", "c", "r", "i", "p", "t">>
T_textBabel == <<"t", "e", "x", "t", "/", "b", "a", "b", "e", "l">>
T_textTypescript == <<"t", "e", "x", "t", "/", "t", "y", "p", "e", "s", "c", "r", "i", "p", "t">>
T_textPlain == <<"t", "e", "x", "t", "/", "p", "l", "a", "i", "n">>

UpperCase == <<"A", "B", "C", "D", "E", "F", "G", "H", "I", "J", "K", "L", "M", "N", "O", "P", "Q", "R", "S", "T", "U", "V", "W", "X", "Y", "Z">>
LowerCase == <<"a", "b", "c", "d", "e", "f", "g", "h", "i", "j", "k", "l", "m", "n", "o", "p", "q", "r", "s", "t", "u", "v", "w", "x", "y", "z">>
Digits == <<"0", "1", "2", "3", "4", "5", "6", "7", "8", "9">>

Range(s) == {s[i] : i \in DOMAIN s}

\* String.prototype.toLowerCase, one character.
LowerChar(c) ==
    IF \E i \in DOMAIN UpperCase : UpperCase[i] = c
    THEN LowerCase[CHOOSE i \in DOMAIN UpperCase : UpperCase[i] = c]
    ELSE c

\* String.prototype.toLowerCase.
toLowerCase(s) == [i \in DOMAIN s |-> LowerChar(s[i])]

\* The regular expression class \w.
WordChars == Range(UpperCase) \cup Range(LowerCase) \cup Range(Digits) \cup {"_"}

Quotes == {DQ, SQ}

\* String.prototype.substr(from, length), from >= 0.
substr(s, from, length) ==
    IF length <= 0 \/ from >= Len(s) THEN <<>>
    ELSE SubSeq(s, from + 1, IF from + length > Len(s) THEN Len(s) ELSE from + length)

\* String.prototype.substring(a, b): negative indices count as 0, indices
\* larger than the length as the length, and the two are swapped if a > b.
substring(s, a, b) ==
    LET clamp(n) == IF n < 0 THEN 0 ELSE IF n > Len(s) THEN Len(s) ELSE n
        lo == IF clamp(a) <= clamp(b) THEN clamp(a) ELSE clamp(b)
        hi == IF clamp(a) <= clamp(b) THEN clamp(b) ELSE clamp(a)
    IN SubSeq(s, lo + 1, hi)

\* ------------------------------------------------------------------ state
VARIABLES
    text,               \* document.getText(): the characters scanned so far
    scanState,          \* state of the lexical scanner (createScanner)
    tokens,             \* the tokens the scanner has emitted that getRegions switches on
    lastTagName,        \* getRegions' local lastTagName
    lastAttributeName,  \* getRegions' local lastAttributeName (NoName is null)
    languageIdFromType, \* getRegions' local languageIdFromType
    regions,            \* getRegions' local regions, then HTMLDocumentRegions.regions
    importedScripts,    \* getRegions' local importedScripts
    modes,              \* LanguageModes.modes: the ids of the registered backends
    tmpEntries,         \* the caches holding an entry keyed by a temporary document's URI
    cacheEntries,            \* Cache.entries, in the Map's iteration order
    now,                \* Date.now(), in units of the clock
    timer,              \* Cache.timer: when the interval fires next, NoTimer once cleared
    uses,               \* the URIs of Cache.entries, the least recently used first
    timers,             \* the caches of the service whose interval timer is live
    documents,          \* Server.documents: the version of the open document of each URI
    pendingValidationRequests, \* Server.pendingValidationRequests: URI and timer of each entry
    timeouts,           \* the timers of setTimeout that are neither fired nor cleared
    validations,        \* the validateTextDocument runs awaiting getDocumentSettings
    scheduled,          \* the number of setTimeout calls made so far
    hostDocument,       \* JsLanguageServiceHost.document of each JsLanguageMode
    snapshots,          \* what getScriptVersion and getScriptSnapshot have returned
    call                \* the last call made on the region index or the service

vars == <<text, scanState, tokens, lastTagName, lastAttributeName,
          languageIdFromType, regions, importedScripts, modes, tmpEntries,
          cacheEntries, now, timer, uses, timers, documents, pendingValidationRequests,
          timeouts, validations, scheduled, hostDocument, snapshots, call>>

cacheVars == <<cacheEntries, now, timer, uses>>

serverVars == <<documents, pendingValidationRequests, timeouts, validations, scheduled>>

hostVars == <<hostDocument, snapshots>>

laterVars == <<cacheVars, timers, serverVars, hostVars>>

scanVars == <<text, scanState, tokens, lastTagName, lastAttributeName,
              languageIdFromType, regions, importedScripts>>

\* null of lastAttributeName; the scanner never emits an empty attribute name.
NoName == <<>>

\* undefined of languageIdFromType and of EmbeddedRegion.languageId.
Undefined == "undefined"

NoCall == [op |-> "none"]

\* ---------------------------------------------------------------- inputs
\* Tag names of the scanned documents.
TagNames == {N_a, N_script, N_style}

\* Attribute names of the scanned documents, per tag.
AttributeNames(tag) ==
    IF tag = N_script THEN {N_type, N_src, N_onClick}
    ELSE IF tag = N_style THEN {}
    ELSE {N_style, N_onClick}

Quoted(q, s) == <<q>> \o s \o <<q>>

Form(pre, value, post) == [pre |-> pre, value |-> value, post |-> post]

\* The attribute values of the scanned documents that end before the end of
\* the document, each with the white space before and after it: unquoted,
\* quoted and empty values, a line break directly before a value and
\* directly after one.
AttributeForms(name) ==
    IF name = N_type
    THEN {Form(<<>>, v, <<>>) :
            v \in {T_module, Quoted(DQ, T_module), Quoted(DQ, T_textTypescript),
                   Quoted(SQ, T_textPlain)}}
    ELSE IF name = N_src
    THEN {Form(<<>>, <<"x">>, <<>>), Form(<<>>, Quoted(DQ, <<"x">>), <<>>)}
    ELSE {Form(<<>>, <<"x">>, <<>>), Form(<<>>, Quoted(SQ, <<"x">>), <<>>),
          Form(<<>>, Quoted(DQ, <<>>), <<>>), Form(<<NL>>, Quoted(DQ, <<"x">>), <<>>),
          Form(<<>>, <<"x">>, <<NL>>)}

\* Attribute values whose closing quote is missing: the scanner's token runs
\* to the end of the document.
UnterminatedValues == {<<DQ>>, <<DQ, "x">>}

\* ------------------------------------------------- EmbeddedDocument (scan)
\* getAttributeLanguage: /^(style)$|^(on\w+)$/i
getAttributeLanguage(attributeName) ==
    IF toLowerCase(attributeName) = N_style THEN "css"
    ELSE IF /\ Len(attributeName) >= 3
            /\ toLowerCase(SubSeq(attributeName, 1, 2)) = <<"o", "n">>
            /\ \A i \in 3..Len(attributeName) : attributeName[i] \in WordChars
         THEN "javascript"
    ELSE "null"

JavaScriptTypes ==
    {T_module, T_textJavascript, T_applicationJavascript, T_textEcmascript,
     T_applicationEcmascript, T_textBabel}

\* RegExp.test of /["'](t1|t2|...)["']/ for the alternatives in types.
TestQuotedType(types, value) ==
    \E i, j \in DOMAIN value :
        /\ i < j
        /\ value[i] \in Quotes
        /\ value[j] \in Quotes
        /\ SubSeq(value, i + 1, j - 1) \in types

\* The dialect a type attribute value sets (the chain of tests of getRegions).
LanguageIdOfType(value) ==
    IF TestQuotedType(JavaScriptTypes, value) THEN "javascript"
    ELSE IF TestQuotedType({T_textTypescript}, value) THEN "typescript"
    ELSE Undefined

CountTokens(type) == Cardinality({i \in DOMAIN tokens : tokens[i].type = type})

Token(type, start, end) ==
    [type |-> type, start |-> start, end |-> end, tag |-> CountTokens("StartTag")]

\* case TokenType.StartTag (with the StartTagOpen token before it, which
\* getRegions ignores).
ScanStartTag(maxTags) ==
    /\ scanState = "Content"
    /\ CountTokens("StartTag") < maxTags
    /\ \E name \in TagNames :
        /\ text' = text \o <<LT>> \o name
        /\ tokens' = Append(tokens,
              [type |-> "StartTag", start |-> Len(text) + 1,
               end |-> Len(text) + 1 + Len(name), tag |-> CountTokens("StartTag") + 1])
        /\ lastTagName' = name
    /\ lastAttributeName' = NoName
    /\ languageIdFromType' = "javascript"
    /\ scanState' = "WithinTag"
    /\ UNCHANGED <<regions, importedScripts, modes, tmpEntries, laterVars, call>>

\* The name of the tag the scanner is within.
CurrentTag == tokens[CHOOSE i \in DOMAIN tokens :
                  /\ tokens[i].type = "StartTag"
                  /\ \A j \in DOMAIN tokens : tokens[j].type = "StartTag" => j <= i]

TokenText(t) == SubSeq(text, t.start + 1, t.end)

\* case TokenType.AttributeName (with the Whitespace token before it).
ScanAttributeName(maxAttrs) ==
    /\ scanState \in {"WithinTag", "AfterAttributeName"}
    /\ CountTokens("AttributeName") < maxAttrs
    /\ \E name \in AttributeNames(TokenText(CurrentTag)) :
        /\ text' = text \o <<SP>> \o name
        /\ tokens' = Append(tokens, Token("AttributeName", Len(text) + 1, Len(text) + 1 + Len(name)))
        /\ lastAttributeName' = name
    /\ scanState' = "AfterAttributeName"
    /\ UNCHANGED <<lastTagName, languageIdFromType, regions, importedScripts, modes, tmpEntries, laterVars, call>>

\* The region of an attribute value that keeps the surrounding quotes.
AttributeRegionWithQuotes(start, end, value, languageId) ==
    [attributeValue |-> TRUE, end |-> end, languageId |-> languageId, start |-> start]

\* The region getRegions pushes for the attribute value token [start, end)
\* whose text is value.
AttributeRegion(start, end, value, languageId) ==
    IF value[1] \in Quotes
    THEN [attributeValue |-> TRUE, end |-> end - 1, languageId |-> languageId, start |-> start + 1]
    ELSE [attributeValue |-> TRUE, end |-> end, languageId |-> languageId, start |-> start]

\* case TokenType.AttributeValue, for the token [start, end) whose text is value.
AttributeValueCase(start, end, value) ==
    /\ IF lastAttributeName = N_src /\ toLowerCase(lastTagName) = N_script
       THEN /\ importedScripts' = Append(importedScripts,
                   IF Len(value) > 0 /\ value[1] \in Quotes
                   THEN substr(value, 1, Len(value) - 1)
                   ELSE value)
            /\ UNCHANGED <<languageIdFromType, regions>>
       ELSE IF lastAttributeName = N_type /\ toLowerCase(lastTagName) = N_script
       THEN /\ languageIdFromType' = LanguageIdOfType(value)
            /\ UNCHANGED <<importedScripts, regions>>
       ELSE /\ IF getAttributeLanguage(lastAttributeName) # "null"
               THEN regions' = Append(regions,
                       AttributeRegion(start, end, value,
                                       getAttributeLanguage(lastAttributeName)))
               ELSE UNCHANGED regions
            /\ UNCHANGED <<languageIdFromType, importedScripts>>
    /\ lastAttributeName' = NoName

\* An attribute value that ends inside the document (with the DelimiterAssign
\* token before it and the Whitespace tokens around it).
ScanAttributeValue ==
    /\ scanState = "AfterAttributeName"
    /\ \E form \in AttributeForms(TokenText(tokens[Len(tokens)])) :
        LET start == Len(text) + 1 + Len(form.pre)
            end   == start + Len(form.value)
        IN /\ text' = text \o <<EQ>> \o form.pre \o form.value \o form.post
           /\ tokens' = Append(tokens, Token("AttributeValue", start, end))
           /\ AttributeValueCase(start, end, form.value)
    /\ scanState' = "WithinTag"
    /\ UNCHANGED <<lastTagName, modes, tmpEntries, laterVars, call>>

\* A quoted attribute value whose closing quote is missing: the token is the
\* rest of the document.
ScanUnterminatedValue ==
    /\ scanState = "AfterAttributeName"
    /\ TokenText(tokens[Len(tokens)]) # N_type
    /\ \E value \in UnterminatedValues :
        LET start == Len(text) + 1
            end   == start + Len(value)
        IN /\ text' = text \o <<EQ>> \o value
           /\ tokens' = Append(tokens, Token("AttributeValue", start, end))
           /\ AttributeValueCase(start, end, value)
    /\ scanState' = "AtEnd"
    /\ UNCHANGED <<lastTagName, modes, tmpEntries, laterVars, call>>

\* The StartTagClose token, which getRegions ignores: the scanner goes on with the tag's content.
ScanStartTagClose ==
    /\ scanState \in {"WithinTag", "AfterAttributeName"}
    /\ text' = text \o <<GT>>
    /\ scanState' = IF TokenText(CurrentTag) = N_script THEN "WithinScriptContent"
                    ELSE IF TokenText(CurrentTag) = N_style THEN "WithinStyleContent"
                    ELSE "Content"
    /\ UNCHANGED <<tokens, lastTagName, lastAttributeName, languageIdFromType,
                   regions, importedScripts, modes, tmpEntries, laterVars, call>>

\* case TokenType.Styles
ScanStyles ==
    /\ scanState = "WithinStyleContent"
    /\ LET start == Len(text)
           end   == Len(text) + 1
       IN /\ text' = text \o <<"x">>
          /\ tokens' = Append(tokens, Token("Styles", start, end))
          /\ regions' = Append(regions,
                [languageId |-> "css", start |-> start, end |-> end, attributeValue |-> FALSE])
    /\ scanState' = "BeforeEndTag"
    /\ UNCHANGED <<lastTagName, lastAttributeName, languageIdFromType, importedScripts, modes, tmpEntries, laterVars, call>>

\* case TokenType.Script
ScanScript ==
    /\ scanState = "WithinScriptContent"
    /\ LET start == Len(text)
           end   == Len(text) + 1
       IN /\ text' = text \o <<"y">>
          /\ tokens' = Append(tokens, Token("Script", start, end))
          /\ regions' = Append(regions,
                [languageId |-> languageIdFromType, start |-> start, end |-> end,
                 attributeValue |-> FALSE])
    /\ scanState' = "BeforeEndTag"
    /\ UNCHANGED <<lastTagName, lastAttributeName, languageIdFromType, importedScripts, modes, tmpEntries, laterVars, call>>

\* The EndTagOpen, EndTag and EndTagClose tokens after a style or script
\* body, which getRegions ignores.
ScanEndTag ==
    /\ scanState = "BeforeEndTag"
    /\ text' = text \o <<LT, SL>> \o TokenText(CurrentTag) \o <<GT>>
    /\ scanState' = "Content"
    /\ UNCHANGED <<tokens, lastTagName, lastAttributeName, languageIdFromType,
                   regions, importedScripts, modes, tmpEntries, laterVars, call>>

\* TokenType.EOS: the loop ends and the HTMLDocumentRegions is constructed.
ScanEOS ==
    /\ scanState \in {"Content", "WithinTag", "BeforeEndTag", "AtEnd"}
    /\ scanState' = "EOS"
    /\ UNCHANGED <<text, tokens, lastTagName, lastAttributeName, languageIdFromType,
                   regions, importedScripts, modes, tmpEntries, laterVars, call>>

\* getRegions over the documents of at most maxTags start tags and maxAttrs
\* attributes.
getRegions(maxTags, maxAttrs) ==
    \/ ScanStartTag(maxTags)
    \/ ScanAttributeName(maxAttrs)
    \/ ScanAttributeValue
    \/ ScanUnterminatedValue
    \/ ScanStartTagClose
    \/ ScanStyles
    \/ ScanScript
    \/ ScanEndTag
    \/ ScanEOS

\* ------------------------------------------------------------ TextDocument
Position(line, character) == [line |-> line, character |-> character]

Min(a, b) == IF a <= b THEN a ELSE b
Max(a, b) == IF a >= b THEN a ELSE b

\* TextDocument.lineCount: the document's lines are separated by line breaks.
lineCount(content) == 1 + Cardinality({i \in DOMAIN content : content[i] = NL})

\* The offset at which a line starts (lines count from 0).
LineOffset(content, line) ==
    IF line = 0 THEN 0
    ELSE LET breaks == {i \in DOMAIN content : content[i] = NL}
         IN CHOOSE i \in breaks : Cardinality({j \in breaks : j <= i}) = line

\* TextDocument.positionAt
positionAt(content, offset) ==
    LET o    == Max(Min(offset, Len(content)), 0)
        line == Cardinality({j \in 1..o : content[j] = NL})
    IN Position(line, o - LineOffset(content, line))

\* Not-a-number: every comparison with it is false.
NaN == 0 - 1

\* TextDocument.offsetAt; for an argument without line and character (both
\* undefined, written NaN) the arithmetic yields NaN.
offsetAt(content, position) ==
    IF position.line = NaN THEN NaN
    ELSE IF position.line >= lineCount(content) THEN Len(content)
    ELSE IF position.line < 0 THEN 0
    ELSE LET lineOffset     == LineOffset(content, position.line)
             nextLineOffset == IF position.line + 1 < lineCount(content)
                               THEN LineOffset(content, position.line + 1)
                               ELSE Len(content)
         IN Max(Min(lineOffset + position.character, nextLineOffset), lineOffset)

\* ----------------------------------------------------- HTMLDocumentRegions
CSS_STYLE_RULE == <<"_", "_">>

getPrefix(region) ==
    IF region.attributeValue /\ region.languageId = "css"
    THEN CSS_STYLE_RULE \o <<"{">>
    ELSE <<>>

getSuffix(region) ==
    IF region.attributeValue /\ region.languageId = "css" THEN <<"}">>
    ELSE IF region.attributeValue /\ region.languageId = "javascript" THEN <<";">>
    ELSE <<>>

\* The value of a call that threw.
Threw == [threw |-> TRUE, text |-> <<>>]
Returned(t) == [threw |-> FALSE, text |-> t]

\* String.prototype.repeat of " ": a negative count throws a RangeError.
Spaces(n) == [i \in 1..n |-> SP]

\* The for loop of substituteWithWhitespace from index i on.
RECURSIVE SubstituteLoop(_, _, _, _, _)
SubstituteLoop(i, end, oldContent, accumulatedWS, result) ==
    IF i >= end THEN [accumulatedWS |-> accumulatedWS, result |-> result]
    ELSE IF i < Len(oldContent) /\ oldContent[i + 1] = NL
    THEN SubstituteLoop(i + 1, end, oldContent, 0, Append(result, oldContent[i + 1]))
    ELSE SubstituteLoop(i + 1, end, oldContent, accumulatedWS + 1, result)

substituteWithWhitespace(source, start, end, oldContent, before, after) ==
    LET loop == SubstituteLoop(start + Len(before), end, oldContent, 0, source \o before)
    IN IF loop.accumulatedWS - Len(after) < 0 THEN Threw
       ELSE Returned(loop.result \o Spaces(loop.accumulatedWS - Len(after)) \o after)

\* The loop of getEmbeddedDocument over the regions from index i on.
RECURSIVE EmbeddedLoop(_, _, _, _, _, _, _, _)
EmbeddedLoop(i, regs, oldContent, languageId, ignoreAttributeValues, currentPos, result, lastSuffix) ==
    IF i > Len(regs)
    THEN substituteWithWhitespace(result, currentPos, Len(oldContent), oldContent, lastSuffix, <<>>)
    ELSE LET region == regs[i] IN
        IF region.languageId = languageId /\ (~ignoreAttributeValues \/ ~region.attributeValue)
        THEN LET padded == substituteWithWhitespace(result, currentPos, region.start,
                                                    oldContent, lastSuffix, getPrefix(region))
             IN IF padded.threw THEN Threw
                ELSE EmbeddedLoop(i + 1, regs, oldContent, languageId, ignoreAttributeValues,
                        region.end,
                        padded.text \o substring(oldContent, region.start, region.end),
                        getSuffix(region))
        ELSE EmbeddedLoop(i + 1, regs, oldContent, languageId, ignoreAttributeValues,
                          currentPos, result, lastSuffix)

\* The text of the document getEmbeddedDocument returns, or Threw.
getEmbeddedDocument(oldContent, regs, languageId, ignoreAttributeValues) ==
    EmbeddedLoop(1, regs, oldContent, languageId, ignoreAttributeValues, 0, <<>>, <<>>)

HostRange(start, end) ==
    [start |-> start, end |-> end, languageId |-> "html", attributeValue |-> FALSE]

\* The documents and region lists a region index is constructed over:
\* every text of "x" and line breaks, every list of regions in ascending
\* order that do not overlap.
Documents == UNION {[1..n -> {"x", NL}] : n \in 0..MaxLen}

EmbeddedRegions(len) ==
    {[languageId |-> languageId, start |-> start, end |-> end, attributeValue |-> FALSE] :
        languageId \in {"css", "javascript"}, start \in 0..len, end \in 0..len}

RegionLists(len) ==
    {regs \in UNION {[1..n -> EmbeddedRegions(len)] : n \in 0..MaxRegions} :
        /\ \A i \in DOMAIN regs : regs[i].start <= regs[i].end
        /\ \A i \in 1..(Len(regs) - 1) : regs[i].end <= regs[i + 1].start}

\* new HTMLDocumentRegions(document, regions, importedScripts)
Construct ==
    /\ scanState = "Content"
    /\ text = <<>>
    /\ \E content \in Documents :
        /\ Len(content) > 0
        /\ text' = content
        /\ \E regs \in RegionLists(Len(content)) : regions' = regs
    /\ scanState' = "EOS"
    /\ UNCHANGED <<tokens, lastTagName, lastAttributeName, languageIdFromType,
                   importedScripts, modes, tmpEntries, laterVars, call>>

\* The loop of getLanguageRanges over the regions from index i on.
RECURSIVE LanguageRangesLoop(_, _, _, _, _, _, _)
LanguageRangesLoop(i, regs, content, endOffset, currentPos, currentOffset, result) ==
    IF i > Len(regs)
    THEN [currentPos |-> currentPos, currentOffset |-> currentOffset, result |-> result]
    ELSE LET region == regs[i] IN
        IF region.end > currentOffset /\ region.start < endOffset
        THEN LET start    == Max(region.start, currentOffset)
                 startPos == positionAt(content, start)
                 gap      == IF currentOffset < region.start
                             THEN Append(result, HostRange(currentPos, startPos))
                             ELSE result
                 end      == Min(region.end, endOffset)
                 endPos   == positionAt(content, end)
                 both     == IF end > region.start
                             THEN Append(gap, [start |-> startPos, end |-> endPos,
                                               languageId |-> region.languageId,
                                               attributeValue |-> region.attributeValue])
                             ELSE gap
             IN LanguageRangesLoop(i + 1, regs, content, endOffset, endPos, end, both)
        ELSE LanguageRangesLoop(i + 1, regs, content, endOffset, currentPos, currentOffset, result)

\* getLanguageRanges without the host range after the last region.
getLanguageRangesNoTail(content, regs, range) ==
    LanguageRangesLoop(1, regs, content, offsetAt(content, range.end), range.start,
                       offsetAt(content, range.start), <<>>).result

getLanguageRanges(content, regs, range) ==
    LET endOffset == offsetAt(content, range.end)
        loop      == LanguageRangesLoop(1, regs, content, endOffset, range.start,
                                        offsetAt(content, range.start), <<>>)
    IN IF loop.currentOffset < endOffset
       THEN Append(loop.result, HostRange(loop.currentPos, range.end))
       ELSE loop.result

\* The loop of getLanguageAtPosition over the regions from index i on; every
\* comparison with NaN is false.
RECURSIVE LanguageAtOffsetLoop(_, _, _)
LanguageAtOffsetLoop(i, regs, offset) ==
    IF i > Len(regs) THEN "html"
    ELSE IF offset # NaN /\ regs[i].start <= offset
    THEN IF offset <= regs[i].end
         THEN regs[i].languageId
         ELSE LanguageAtOffsetLoop(i + 1, regs, offset)
    ELSE "html"

\* getLanguageAtPosition with a region's end excluded.
getLanguageAtOffsetEndExclusive(regs, offset) ==
    LET hit == {i \in DOMAIN regs : regs[i].start <= offset /\ offset < regs[i].end}
    IN IF hit = {} THEN "html"
       ELSE regs[CHOOSE i \in hit : \A j \in hit : i <= j].languageId

\* getLanguageAtPosition, after its call of offsetAt.
getLanguageAtOffset(regs, offset) == LanguageAtOffsetLoop(1, regs, offset)

getLanguageAtPosition(content, regs, position) ==
    getLanguageAtOffset(regs, offsetAt(content, position))

Includes(s, e) == \E i \in DOMAIN s : s[i] = e

\* The loop of getLanguagesInDocument over the regions from index i on.
RECURSIVE LanguagesLoop(_, _, _)
LanguagesLoop(i, regs, result) ==
    IF i > Len(regs) THEN Append(result, "html")
    ELSE IF regs[i].languageId # Undefined /\ ~Includes(result, regs[i].languageId)
    THEN IF Len(result) + 1 = 3
         THEN Append(result, regs[i].languageId)
         ELSE LanguagesLoop(i + 1, regs, Append(result, regs[i].languageId))
    ELSE LanguagesLoop(i + 1, regs, result)

getLanguagesInDocument(regs) == LanguagesLoop(1, regs, <<>>)

\* The ranges callers ask getLanguageRanges about that span the whole
\* document: up to the position of the last offset, and up to the line
\* after the last (getFoldingRanges).
FullRanges ==
    {[start |-> Position(0, 0), end |-> positionAt(text, Len(text))],
     [start |-> Position(0, 0), end |-> Position(lineCount(text), 0)]}

\* The offsets calls are made at: the ends of the document and of every
\* region, and the offsets next to them.
Offsets ==
    ({0, Len(text)}
     \cup UNION {{regions[i].start - 1, regions[i].start, regions[i].end, regions[i].end + 1} :
                 i \in DOMAIN regions})
    \cap 0..Len(text)

Languages == {"css", "javascript", "typescript"}

\* The document is scanned and no call is in progress: the server handles
\* one request at a time.
Idle == scanState = "EOS" /\ call = NoCall

CallGetLanguageRanges ==
    /\ Idle
    /\ \E range \in FullRanges :
        call' = [op |-> "getLanguageRanges", range |-> range,
                 result |-> getLanguageRanges(text, regions, range)]
    /\ UNCHANGED <<scanVars, modes, tmpEntries, laterVars>>

CallGetEmbeddedDocument ==
    /\ Idle
    /\ \E languageId \in Languages, ignoreAttributeValues \in BOOLEAN :
        call' = [op |-> "getEmbeddedDocument", languageId |-> languageId,
                 ignoreAttributeValues |-> ignoreAttributeValues,
                 result |-> getEmbeddedDocument(text, regions, languageId, ignoreAttributeValues)]
    /\ UNCHANGED <<scanVars, modes, tmpEntries, laterVars>>

CallGetLanguageAtPosition ==
    /\ Idle
    /\ \E offset \in Offsets :
        call' = [op |-> "getLanguageAtPosition", position |-> positionAt(text, offset),
                 result |-> getLanguageAtPosition(text, regions, positionAt(text, offset))]
    /\ UNCHANGED <<scanVars, modes, tmpEntries, laterVars>>

CallGetLanguagesInDocument ==
    /\ Idle
    /\ call' = [op |-> "getLanguagesInDocument", result |-> getLanguagesInDocument(regions)]
    /\ UNCHANGED <<scanVars, modes, tmpEntries, laterVars>>

\* getImportedScripts
CallGetImportedScripts ==
    /\ Idle
    /\ call' = [op |-> "getImportedScripts", result |-> importedScripts]
    /\ UNCHANGED <<scanVars, modes, tmpEntries, laterVars>>

\* The caller takes the result.
Return ==
    /\ call # NoCall
    /\ call' = NoCall
    /\ UNCHANGED <<scanVars, modes, tmpEntries, laterVars>>

HTMLDocumentRegions ==
    \/ CallGetLanguageRanges
    \/ CallGetEmbeddedDocument
    \/ CallGetLanguageAtPosition
    \/ CallGetLanguagesInDocument
    \/ CallGetImportedScripts

\* -------------------------------------------------------- LanguageService
\* The registered backends (LanguageService's constructor).
Handlers == {"html", "css", "javascript", "typescript"}

\* The operations each backend implements.
HtmlLanguageMode ==
    {"doAutoInsert", "doComplete", "doHover", "doLinkedEditing", "doRename",
     "findDocumentHighlight", "findDocumentLinks", "findDocumentSymbols", "format",
     "getFoldingRanges", "getSelectionRange"}

CssLanguageMode ==
    {"doComplete", "doHover", "doValidation", "findDefinition", "findDocumentHighlight",
     "findDocumentSymbols", "findReferences", "getColorPresentations", "getFoldingRanges",
     "getSelectionRange"}

JsLanguageMode ==
    {"doComplete", "doHover", "doRename", "doResolve", "doValidation", "doSignatureHelp",
     "findDefinition", "findDocumentHighlight", "findDocumentSymbols", "findReferences",
     "format", "getFoldingRanges", "getSelectionRange", "getSemanticTokens",
     "getSemanticTokenLegend"}

\* mode[key] is defined.
Implements(id, key) ==
    key \in (IF id = "html" THEN HtmlLanguageMode
             ELSE IF id = "css" THEN CssLanguageMode
             ELSE JsLanguageMode)

\* Values of the service's operations.
Null == [kind |-> "null"]
EmptyList == [kind |-> "list", items |-> <<>>]
EmptyCompletionList == [kind |-> "completionList", isIncomplete |-> FALSE, items |-> <<>>]
\* What the backend id answers to the operation key.
Answer(id, key) == [kind |-> "answer", mode |-> id, key |-> key]
\* A TypeError: the call of something that is no function.
TypeError == [kind |-> "TypeError"]

\* LanguageModes.getModeAtPosition: the id of the backend, or Undefined.
getModeAtPosition(position) ==
    LET languageId == getLanguageAtPosition(text, regions, position)
    IN IF languageId # Undefined /\ languageId \in modes THEN languageId ELSE Undefined

\* invoke that calls the operation without looking whether the backend has it.
invokeUnchecked(key, position) ==
    LET mode == getModeAtPosition(position)
    IN IF mode # Undefined /\ Implements(mode, key) THEN Answer(mode, key) ELSE TypeError

\* LanguageService.invoke; position is its second parameter.
invoke(key, position) ==
    LET mode == getModeAtPosition(position)
    IN IF mode # Undefined /\ Implements(mode, key) THEN Answer(mode, key) ELSE Null

\* a ?? b
Coalesce(a, b) == IF a = Null THEN b ELSE a

doAutoInsert(position) == invoke("doAutoInsert", position)
doComplete(position) == Coalesce(invoke("doComplete", position), EmptyCompletionList)
doHover(position) == invoke("doHover", position)
doRename(position) == invoke("doRename", position)
doSignatureHelp(position) == invoke("doSignatureHelp", position)
findDefinition(position) == invoke("findDefinition", position)
findDocumentHighlight(position) == Coalesce(invoke("findDocumentHighlight", position), EmptyList)
findReferences(position) == Coalesce(invoke("findReferences", position), EmptyList)

\* A Color: it has neither line nor character.
Color == Position(NaN, NaN)

\* getColorPresentations(document, color, range): the color is invoke's
\* second parameter.
getColorPresentations(color, range) ==
    Coalesce(invoke("getColorPresentations", color), EmptyList)

\* The positions calls are made at: the start of the document, the start
\* and the end of every region.
Positions ==
    {positionAt(text, offset) :
        offset \in ({0} \cup UNION {{regions[i].start, regions[i].end} : i \in DOMAIN regions})
                    \cap 0..Len(text)}

\* The request handler: it answers with the operation's result.
ServiceCall(op, position, result) ==
    /\ call' = [op |-> op, position |-> position, result |-> result]
    /\ UNCHANGED <<scanVars, modes, tmpEntries, laterVars>>

CallDoAutoInsert ==
    /\ Idle
    /\ \E position \in Positions : ServiceCall("doAutoInsert", position, doAutoInsert(position))

CallDoComplete ==
    /\ Idle
    /\ \E position \in Positions : ServiceCall("doComplete", position, doComplete(position))

CallDoHover ==
    /\ Idle
    /\ \E position \in Positions : ServiceCall("doHover", position, doHover(position))

CallDoRename ==
    /\ Idle
    /\ \E position \in Positions : ServiceCall("doRename", position, doRename(position))

CallDoSignatureHelp ==
    /\ Idle
    /\ \E position \in Positions :
        ServiceCall("doSignatureHelp", position, doSignatureHelp(position))

CallFindDefinition ==
    /\ Idle
    /\ \E position \in Positions :
        ServiceCall("findDefinition", position, findDefinition(position))

CallFindDocumentHighlight ==
    /\ Idle
    /\ \E position \in Positions :
        ServiceCall("findDocumentHighlight", position, findDocumentHighlight(position))

CallFindReferences ==
    /\ Idle
    /\ \E position \in Positions :
        ServiceCall("findReferences", position, findReferences(position))

\* The call position is the start of the range the presentations are for.
CallGetColorPresentations ==
    /\ Idle
    /\ \E position \in Positions :
        ServiceCall("getColorPresentations", position,
                    getColorPresentations(Color, [start |-> position, end |-> position]))

\* The caches the constructor of a backend creates; the region index is
\* created by the service and handed to the style and script backends.
CachesOf(mode) ==
    CASE mode = "html" -> {"htmlDocuments"}
      [] mode = "css" -> {"embeddedCSSDocuments", "cssStylesheets"}
      [] mode = "javascript" -> {"jsDocuments javascript"}
      [] mode = "typescript" -> {"jsDocuments typescript"}

\* Every Cache of the service, each with an interval timer from its constructor.
ServiceCaches == {"regions"} \cup UNION {CachesOf(mode) : mode \in {"html", "css", "javascript", "typescript"}}

\* The caches whose dispose (clearInterval) the backend's dispose calls.
dispose(mode) ==
    CASE mode = "html" -> {"htmlDocuments"}
      [] mode = "css" -> {"regions"}
      [] mode = "javascript" -> {"jsDocuments javascript"}
      [] mode = "typescript" -> {"jsDocuments typescript"}

\* LanguageService.dispose: LanguageModes.dispose disposes each backend and
\* clears the backends.
Dispose ==
    /\ Idle
    /\ modes # {}
    /\ timers' = timers \ UNION {dispose(mode) : mode \in modes}
    /\ modes' = {}
    /\ UNCHANGED <<scanVars, tmpEntries, cacheVars, serverVars, hostVars, call>>

LanguageService ==
    \/ CallDoAutoInsert
    \/ CallDoComplete
    \/ CallDoHover
    \/ CallDoRename
    \/ CallDoSignatureHelp
    \/ CallFindDefinition
    \/ CallFindDocumentHighlight
    \/ CallFindReferences
    \/ CallGetColorPresentations
    \/ Dispose

\* ------------------------------------------------- LanguageService.invokeAll
\* The backends in the order the constructor registers them.
RegistrationOrder == <<"html", "css", "javascript", "typescript">>

\* LanguageModes.getAllModes: the values of the map, in insertion order.
getAllModes == SelectSeq(RegistrationOrder, LAMBDA id : id \in modes)

\* The values of a boolean setting: true, false, or not set.
OptionalBoolean == {"true", "false", "undefined"}

\* The settings validation is called with: without html.validate, or with
\* html.validate.styles and html.validate.scripts.
ValidationSettings ==
    {[validate |-> FALSE, styles |-> "undefined", scripts |-> "undefined"]}
    \cup {[validate |-> TRUE, styles |-> styles, scripts |-> scripts] :
            styles \in OptionalBoolean, scripts \in OptionalBoolean}

\* LanguageService.isValidationEnabled
isValidationEnabled(languageId, settings) ==
    IF settings.validate
    THEN \/ languageId = "css" /\ settings.styles # "false"
         \/ languageId = "javascript" /\ settings.scripts # "false"
    ELSE TRUE

\* The loop of invokeAll("doValidation") over the backends from index i on;
\* the diagnostics of a backend are written as its id.
RECURSIVE ValidationLoop(_, _, _)
ValidationLoop(i, settings, result) ==
    IF i > Len(getAllModes) THEN result
    ELSE LET mode == getAllModes[i]
         IN IF Implements(mode, "doValidation") /\ isValidationEnabled(mode, settings)
            THEN ValidationLoop(i + 1, settings, Append(result, mode))
            ELSE ValidationLoop(i + 1, settings, result)

\* LanguageService.doValidation
doValidation(settings) == ValidationLoop(1, settings, <<>>)

CallDoValidation ==
    /\ Idle
    /\ \E settings \in ValidationSettings :
        call' = [op |-> "doValidation", settings |-> settings, result |-> doValidation(settings)]
    /\ UNCHANGED <<scanVars, modes, tmpEntries, laterVars>>

\* ------------------------------------------------ LanguageService.limitRanges
FoldingRange(startLine, endLine) == [startLine |-> startLine, endLine |-> endLine]

\* The comparator of ranges.sort: by start line, then by end line.
CompareRanges(r1, r2) ==
    IF r1.startLine - r2.startLine = 0
    THEN r1.endLine - r2.endLine
    ELSE r1.startLine - r2.startLine

\* Array.prototype.sort with CompareRanges; the sort is stable.
RECURSIVE SortRanges(_)
SortRanges(ranges) ==
    IF ranges = <<>> THEN <<>>
    ELSE LET sorted == SortRanges(SubSeq(ranges, 1, Len(ranges) - 1))
             last   == ranges[Len(ranges)]
             before == SelectSeq(sorted, LAMBDA r : CompareRanges(r, last) <= 0)
             after  == SelectSeq(sorted, LAMBDA r : CompareRanges(r, last) > 0)
         IN before \o <<last>> \o after

\* Levels from this one on are not counted.
MaxCountedLevel == 30

\* A range without nesting level (nestingLevels[i] is undefined).
NoLevel == 0 - 1

\* setNestingLevel: the loop state with the level of the next range set.
setNestingLevel(loop, level) ==
    [loop EXCEPT !.nestingLevels = Append(@, level),
                 !.nestingLevelCounts =
                     IF level < MaxCountedLevel THEN [@ EXCEPT ![level] = @ + 1] ELSE @]

\* do { top = previous.pop(); } while (top && entry.startLine > top.endLine);
\* followed by if (top) previous.push(top): the stack that is left.
RECURSIVE PopPrevious(_, _)
PopPrevious(previous, entry) ==
    IF previous = <<>> THEN <<>>
    ELSE IF entry.startLine > previous[Len(previous)].endLine
    THEN PopPrevious(SubSeq(previous, 1, Len(previous) - 1), entry)
    ELSE previous

\* The loop that computes the nesting levels, from index i on; top is the
\* empty sequence while undefined.
RECURSIVE NestingLoop(_, _, _)
NestingLoop(i, currentRanges, loop) ==
    IF i > Len(currentRanges) THEN loop
    ELSE LET entry == currentRanges[i]
             top   == loop.top
         IN IF top = <<>>
            THEN NestingLoop(i + 1, currentRanges,
                    setNestingLevel([loop EXCEPT !.top = <<entry>>], 0))
            ELSE IF entry.startLine > top[1].startLine /\ entry.endLine <= top[1].endLine
            THEN LET previous == Append(loop.previous, top[1])
                 IN NestingLoop(i + 1, currentRanges,
                        setNestingLevel([loop EXCEPT !.top = <<entry>>, !.previous = previous],
                                        Len(previous)))
            ELSE IF entry.startLine > top[1].startLine /\ entry.startLine > top[1].endLine
            THEN LET previous == PopPrevious(loop.previous, entry)
                 IN NestingLoop(i + 1, currentRanges,
                        setNestingLevel([loop EXCEPT !.top = <<entry>>, !.previous = previous],
                                        Len(previous)))
            ELSE NestingLoop(i + 1, currentRanges,
                    [loop EXCEPT !.nestingLevels = Append(@, NoLevel)])

\* The nesting levels and their counts for the sorted ranges.
NestingLevels(currentRanges) ==
    NestingLoop(1, currentRanges,
                [top |-> <<>>, previous |-> <<>>, nestingLevels |-> <<>>,
                 nestingLevelCounts |-> [level \in 0..(MaxCountedLevel - 1) |-> 0]])

\* The loop over nestingLevelCounts that finds maxLevel and entries.
RECURSIVE MaxLevelLoop(_, _, _, _)
MaxLevelLoop(i, nestingLevelCounts, entries, maxRanges) ==
    IF i >= MaxCountedLevel THEN [entries |-> entries, maxLevel |-> 0]
    ELSE LET count == nestingLevelCounts[i]
         IN IF count # 0
            THEN IF count + entries > maxRanges
                 THEN [entries |-> entries, maxLevel |-> i]
                 ELSE MaxLevelLoop(i + 1, nestingLevelCounts, entries + count, maxRanges)
            ELSE MaxLevelLoop(i + 1, nestingLevelCounts, entries, maxRanges)

\* The loop that selects the ranges, from index i on.
RECURSIVE SelectLoop(_, _, _, _, _, _, _)
SelectLoop(i, currentRanges, nestingLevels, maxLevel, entries, maxRanges, result) ==
    IF i > Len(currentRanges) THEN result
    ELSE LET level == nestingLevels[i]
         IN IF level = NoLevel
            THEN SelectLoop(i + 1, currentRanges, nestingLevels, maxLevel, entries, maxRanges, result)
            ELSE IF level < maxLevel
            THEN SelectLoop(i + 1, currentRanges, nestingLevels, maxLevel, entries, maxRanges,
                            Append(result, currentRanges[i]))
            ELSE IF level = maxLevel
            THEN SelectLoop(i + 1, currentRanges, nestingLevels, maxLevel, entries + 1, maxRanges,
                            IF entries < maxRanges THEN Append(result, currentRanges[i]) ELSE result)
            ELSE SelectLoop(i + 1, currentRanges, nestingLevels, maxLevel, entries, maxRanges, result)

\* limitRanges that sorts a copy and selects from the list as it was given.
limitRangesSortsCopy(ranges, maxRanges) ==
    LET currentRanges == SortRanges(ranges)
        nesting       == NestingLevels(currentRanges)
        cut           == MaxLevelLoop(0, nesting.nestingLevelCounts, 0, maxRanges)
    IN SelectLoop(1, ranges, nesting.nestingLevels, cut.maxLevel, cut.entries,
                  maxRanges, <<>>)

\* limitRanges that forgets the ranges counted below the cut level.
limitRangesFullQuota(ranges, maxRanges) ==
    LET currentRanges == SortRanges(ranges)
        nesting       == NestingLevels(currentRanges)
        cut           == MaxLevelLoop(0, nesting.nestingLevelCounts, 0, maxRanges)
    IN SelectLoop(1, currentRanges, nesting.nestingLevels, cut.maxLevel, 0,
                  maxRanges, <<>>)

\* LanguageService.limitRanges
limitRanges(ranges, maxRanges) ==
    LET currentRanges == SortRanges(ranges)
        nesting       == NestingLevels(currentRanges)
        cut           == MaxLevelLoop(0, nesting.nestingLevelCounts, 0, maxRanges)
    IN SelectLoop(1, currentRanges, nesting.nestingLevels, cut.maxLevel, cut.entries,
                  maxRanges, <<>>)

\* The folding ranges of at most n ranges over the lines 0..maxLine.
FoldingLists(n, maxLine) ==
    UNION {[1..k -> {FoldingRange(startLine, endLine) :
                        startLine \in 0..maxLine, endLine \in 0..maxLine}] : k \in 0..n}

\* Folding ranges end at or after their start.
WellFormedFoldings(ranges) == \A i \in DOMAIN ranges : ranges[i].startLine <= ranges[i].endLine

\* limitRanges called with a list of folding ranges and a maximum.
CallLimitRanges ==
    /\ Idle
    /\ \E ranges \in FoldingLists(MaxFoldings, MaxLine), maxRanges \in 1..MaxLimit :
        /\ WellFormedFoldings(ranges)
        /\ call' = [op |-> "limitRanges", ranges |-> ranges, maxRanges |-> maxRanges,
                    result |-> limitRanges(ranges, maxRanges)]
    /\ UNCHANGED <<scanVars, modes, tmpEntries, laterVars>>

\* ---------------------------------------------- LanguageService.getFoldingRanges
\* LanguageModes.getModesInRange over the whole document: each language
\* range with its backend, Undefined if none is registered.
getModesInRange ==
    LET ranges == getLanguageRanges(text, regions,
                      [start |-> Position(0, 0), end |-> Position(lineCount(text), 0)])
    IN [i \in DOMAIN ranges |->
            [start |-> ranges[i].start, end |-> ranges[i].end,
             attributeValue |-> ranges[i].attributeValue,
             mode |-> IF ranges[i].languageId \in modes THEN ranges[i].languageId ELSE Undefined]]

\* getRangesForMode: rangesPerMode holds the backends whose ranges are
\* cached, and a backend is asked only if it is there already.
getRangesForMode(mode, rangesPerMode, embedded) ==
    IF Implements(mode, "getFoldingRanges")
    THEN IF mode \in rangesPerMode THEN embedded ELSE <<>>
    ELSE <<>>

\* The loop of getFoldingRanges over the language ranges from index i on.
RECURSIVE FoldingLoop(_, _, _, _)
FoldingLoop(i, modeRanges, embedded, result) ==
    IF i > Len(modeRanges) THEN result
    ELSE LET modeRange == modeRanges[i]
             ranges    == getRangesForMode(modeRange.mode, {}, embedded)
         IN IF modeRange.mode # Undefined /\ modeRange.mode # "html" /\ ~modeRange.attributeValue
            THEN FoldingLoop(i + 1, modeRanges, embedded,
                     result \o SelectSeq(ranges,
                                  LAMBDA r : /\ r.startLine >= modeRange.start.line
                                             /\ r.endLine < modeRange.end.line))
            ELSE FoldingLoop(i + 1, modeRanges, embedded, result)

\* getFoldingRanges before limiting; host and embedded are what the host
\* backend and every embedded backend answer (the host's ranges are on the
\* first line).
FoldingRangesOfModes(host, embedded) ==
    FoldingLoop(1, getModesInRange, embedded, IF "html" \in modes THEN host ELSE <<>>)

\* LanguageService.getFoldingRanges; maxRanges is the constructor's.
getFoldingRanges(host, embedded, maxRanges) ==
    LET result == FoldingRangesOfModes(host, embedded)
    IN IF maxRanges # 0 /\ Len(result) > maxRanges
       THEN limitRanges(result, maxRanges)
       ELSE result

CallGetFoldingRanges ==
    /\ Idle
    /\ \E host \in FoldingLists(MaxHostFoldings, 0),
          embedded \in FoldingLists(1, lineCount(text) - 1),
          maxRanges \in {0, 1} :
        /\ WellFormedFoldings(host)
        /\ WellFormedFoldings(embedded)
        /\ call' = [op |-> "getFoldingRanges", host |-> host, embedded |-> embedded,
                    maxRanges |-> maxRanges,
                    unlimited |-> FoldingRangesOfModes(host, embedded),
                    result |-> getFoldingRanges(host, embedded, maxRanges)]
    /\ UNCHANGED <<scanVars, modes, tmpEntries, laterVars>>

\* ------------------------------------------------------ LanguageService.format
TextEdit(range, newText) == [range |-> range, newText |-> newText]

\* a is strictly before b.
Before(a, b) == a.line < b.line \/ (a.line = b.line /\ a.character < b.character)

\* TextDocument.applyEdits makes every edit well formed: start before end.
getWellformedEdit(edit) ==
    IF Before(edit.range.end, edit.range.start)
    THEN TextEdit([start |-> edit.range.end, end |-> edit.range.start], edit.newText)
    ELSE edit

\* The stable sort of applyEdits by the edits' start positions.
RECURSIVE SortEdits(_)
SortEdits(edits) ==
    IF edits = <<>> THEN <<>>
    ELSE LET n      == Len(edits)
             sorted == SortEdits(SubSeq(edits, 1, n - 1))
             k      == Cardinality({j \in DOMAIN sorted :
                                       ~Before(edits[n].range.start, sorted[j].range.start)})
         IN SubSeq(sorted, 1, k) \o <<edits[n]>> \o SubSeq(sorted, k + 1, Len(sorted))

\* The loop of applyEdits over the sorted edits from index i on; threw is
\* its Error("Overlapping edit").
RECURSIVE ApplyLoop(_, _, _, _, _)
ApplyLoop(i, sorted, content, lastModifiedOffset, spans) ==
    IF i > Len(sorted)
    THEN [threw |-> FALSE,
          content |-> spans \o substring(content, lastModifiedOffset, Len(content))]
    ELSE LET startOffset == offsetAt(content, sorted[i].range.start)
         IN IF startOffset < lastModifiedOffset
            THEN [threw |-> TRUE, content |-> <<>>]
            ELSE ApplyLoop(i + 1, sorted, content, offsetAt(content, sorted[i].range.end),
                           spans \o substring(content, lastModifiedOffset, startOffset)
                                 \o sorted[i].newText)

\* TextDocument.applyEdits(document, edits)
applyEdits(content, edits) ==
    ApplyLoop(1, SortEdits([i \in DOMAIN edits |-> getWellformedEdit(edits[i])]),
              content, 0, <<>>)

\* What a formatter does when it is asked to format a range: answer no edit,
\* insert at the range's start, replace the range, delete it, or throw.
Behaviours == {"none", "insert", "replace", "delete", "throw"}

FormatterEdits(behaviour, range) ==
    IF behaviour = "insert"
    THEN <<TextEdit([start |-> range.start, end |-> range.start], <<"z">>)>>
    ELSE IF behaviour = "replace" THEN <<TextEdit(range, <<"z">>)>>
    ELSE IF behaviour = "delete" THEN <<TextEdit(range, <<>>)>>
    ELSE <<>>

\* isEOL(content, offset): the character at offset is a line break.
isEOL(content, offset) ==
    offset >= 0 /\ offset < Len(content) /\ content[offset + 1] = NL

\* format's loop that moves endOffset before the line breaks that end the selection.
RECURSIVE ExcludeNewLines(_, _)
ExcludeNewLines(endOffset, prevLineStart) ==
    IF isEOL(text, endOffset - 1) /\ endOffset > prevLineStart
    THEN ExcludeNewLines(endOffset - 1, prevLineStart)
    ELSE endOffset

\* format's formatRange before the leading pass.
SelectionRange(range) ==
    LET endPos    == range.end
        endOffset == offsetAt(text, endPos)
    IN IF endPos.character = 0 /\ endPos.line > 0 /\ endOffset # Len(text)
       THEN [start |-> range.start,
             end   |-> positionAt(text, ExcludeNewLines(endOffset,
                                            offsetAt(text, Position(endPos.line - 1, 0))))]
       ELSE range

\* LanguageModes.getModesInRange(document, range), the document given by its
\* content and its region index.
getModesInRangeOf(content, regs, range) ==
    LET ranges == getLanguageRanges(content, regs, range)
    IN [i \in DOMAIN ranges |->
            [start |-> ranges[i].start, end |-> ranges[i].end,
             attributeValue |-> ranges[i].attributeValue,
             mode |-> IF ranges[i].languageId \in modes THEN ranges[i].languageId ELSE Undefined]]

\* format's isHTML, and a variant that takes a range without backend for a host range.
isHTMLOrNoMode(range) == range.mode \in {"html", Undefined}

isHTML(range) == range.mode = "html"

\* format's leading loop over allRanges from index i on: calls are the
\* formatter invocations, threw tells that a formatter threw.
RECURSIVE LeadingLoop(_, _, _, _, _, _)
LeadingLoop(i, allRanges, startPos, behaviour, result, calls) ==
    IF ~(i <= Len(allRanges) /\ ~isHTML(allRanges[i]))
    THEN [i |-> i, startPos |-> startPos, result |-> result, calls |-> calls, threw |-> FALSE]
    ELSE LET range == allRanges[i]
             asked == [start |-> startPos, end |-> range.end]
         IN IF ~range.attributeValue /\ range.mode # Undefined /\ Implements(range.mode, "format")
            THEN IF behaviour = "throw"
                 THEN [i |-> i, startPos |-> startPos, result |-> result,
                       calls |-> Append(calls, [mode |-> range.mode, range |-> asked]),
                       threw |-> TRUE]
                 ELSE LeadingLoop(i + 1, allRanges, range.end, behaviour,
                                  result \o FormatterEdits(behaviour, asked),
                                  Append(calls, [mode |-> range.mode, range |-> asked]))
            ELSE LeadingLoop(i + 1, allRanges, range.end, behaviour, result, calls)

\* format's loop over embeddedRanges from index i on; scripts is
\* enabledModes.javascript, and enabledModes has no other key but css.
RECURSIVE EmbeddedFormatLoop(_, _, _, _, _, _)
EmbeddedFormatLoop(i, embeddedRanges, behaviour, scripts, embeddedEdits, calls) ==
    IF i > Len(embeddedRanges)
    THEN [embeddedEdits |-> embeddedEdits, calls |-> calls, threw |-> FALSE]
    ELSE LET range   == embeddedRanges[i]
             mode    == range.mode
             enabled == mode = "css" \/ (mode = "javascript" /\ scripts)
             asked   == [start |-> range.start, end |-> range.end]
         IN IF mode # Undefined /\ Implements(mode, "format") /\ enabled /\ ~range.attributeValue
            THEN IF behaviour = "throw"
                 THEN [embeddedEdits |-> embeddedEdits,
                       calls |-> Append(calls, [mode |-> mode, range |-> asked]),
                       threw |-> TRUE]
                 ELSE EmbeddedFormatLoop(i + 1, embeddedRanges, behaviour, scripts,
                                   embeddedEdits \o FormatterEdits(behaviour, asked),
                                   Append(calls, [mode |-> mode, range |-> asked]))
            ELSE EmbeddedFormatLoop(i + 1, embeddedRanges, behaviour, scripts, embeddedEdits, calls)

\* format's resultReplaceText, and a variant that keeps the text after the range.
resultReplaceTextToEnd(resultContent, startOffset, afterFormatRangeLength) ==
    substring(resultContent, startOffset, Len(resultContent))

resultReplaceText(resultContent, startOffset, afterFormatRangeLength) ==
    substring(resultContent, startOffset, Len(resultContent) - afterFormatRangeLength)

\* The caches of the backends and of LanguageModes, by the field that holds them.
Caches == {"regions", "htmlDocuments", "jsDocuments", "embeddedCSSDocuments", "cssStylesheets"}

\* The caches from which a backend's removeDocument deletes the document,
\* and a variant in which the css backend deletes from its own caches.
removeDocumentOwnCaches(mode) ==
    IF mode = "html" THEN {"htmlDocuments"}
    ELSE IF mode = "css" THEN {"embeddedCSSDocuments", "cssStylesheets"}
    ELSE {"jsDocuments"}

removeDocument(mode) ==
    IF mode = "html" THEN {"htmlDocuments"}
    ELSE IF mode = "css" THEN {"regions"}
    ELSE {"jsDocuments"}

\* LanguageModes.removeDocument: every registered backend removes the document.
RemovedCaches == UNION {removeDocument(mode) : mode \in modes}

\* The record of a call of format: the edits returned unless it threw, the
\* formatter invocations of the leading pass, the range and the edits of the
\* host formatter, the temporary document's content, the embedded pass, and
\* the caches that hold the temporary document when the finally block begins.
FormatCall(range, leading, threw, result, hostCalled, hostRange, htmlEdits, tmpCreated, newContent, embedded, registered) ==
    [op |-> "format", range |-> range, threw |-> threw, result |-> result,
     leadingCalls |-> leading.calls, leadingEdits |-> leading.result,
     hostCalled |-> hostCalled, hostRange |-> hostRange, htmlEdits |-> htmlEdits,
     tmpCreated |-> tmpCreated, newContent |-> newContent,
     embeddedCalls |-> embedded.calls, embeddedEdits |-> embedded.embeddedEdits,
     registered |-> registered]

NoEmbedded == [embeddedEdits |-> <<>>, calls |-> <<>>, threw |-> FALSE]

\* format's afterFormatRangeLength and newFormatRange.
afterFormatRangeLength(hostRange) == Len(text) - offsetAt(text, hostRange.end)

newFormatRange(hostRange, newContent) ==
    [start |-> hostRange.start,
     end   |-> positionAt(newContent, Len(newContent) - afterFormatRangeLength(hostRange))]

\* format from the end of the embedded loop on; getModesInRange has cached
\* the temporary document in regions.
formatEmbedded(range, leading, hostRange, htmlEdits, newContent, embedded) ==
    LET applied == applyEdits(newContent, embedded.embeddedEdits)
        replace == TextEdit(hostRange,
                            resultReplaceText(applied.content, offsetAt(text, hostRange.start),
                                              afterFormatRangeLength(hostRange)))
    IN IF embedded.threw
       THEN FormatCall(range, leading, TRUE, <<>>, TRUE, hostRange, htmlEdits, TRUE,
                       newContent, embedded, {"regions"})
       ELSE IF embedded.embeddedEdits = <<>>
       THEN FormatCall(range, leading, FALSE, leading.result \o htmlEdits, TRUE, hostRange,
                       htmlEdits, TRUE, newContent, embedded, {"regions"})
       ELSE IF applied.threw
       THEN FormatCall(range, leading, TRUE, <<>>, TRUE, hostRange, htmlEdits, TRUE,
                       newContent, embedded, {"regions"})
       ELSE FormatCall(range, leading, FALSE, Append(leading.result, replace), TRUE, hostRange,
                       htmlEdits, TRUE, newContent, embedded, {"regions"})

\* The positions a request names: those of the document and the one after
\* its last line.
RequestPositions ==
    {positionAt(text, offset) : offset \in 0..Len(text)} \cup {Position(lineCount(text), 0)}

\* The lists of at most n regions, attribute values among them, in ascending
\* order without overlap, for a content of the length len.
FormatRegionLists(len, n) ==
    {regs \in UNION {[1..k -> {[languageId |-> languageId, start |-> start, end |-> end,
                                attributeValue |-> attributeValue] :
                                  languageId \in {"css", "javascript"},
                                  start \in 0..len, end \in 0..len,
                                  attributeValue \in BOOLEAN}] : k \in 0..n} :
        /\ \A i \in DOMAIN regs : regs[i].start <= regs[i].end
        /\ \A i \in 1..(Len(regs) - 1) : regs[i].end <= regs[i + 1].start}

\* new HTMLDocumentRegions(document, regions, importedScripts) for the
\* documents format is given.
ConstructFormat ==
    /\ scanState = "Content"
    /\ text = <<>>
    /\ \E content \in UNION {[1..n -> {"x", NL}] : n \in 1..MaxFormatLen} :
        /\ text' = content
        /\ \E regs \in FormatRegionLists(Len(content), MaxFormatRegions) : regions' = regs
    /\ scanState' = "EOS"
    /\ UNCHANGED <<tokens, lastTagName, lastAttributeName, languageIdFromType,
                   importedScripts, modes, tmpEntries, laterVars, call>>

\* LanguageService.format(document, range, options, settings): lead, host
\* and behaviour are what the formatters do in the leading pass, the host
\* formatter, and the formatters in the embedded pass, each drawn if a
\* formatter is asked; scripts is enabledModes.javascript and newRegs the
\* region index of the temporary document. The finally block runs if the
\* temporary document was created.
CallFormat ==
    /\ Idle
    /\ \E start \in RequestPositions, end \in RequestPositions :
       \E range \in {[start |-> start, end |-> end]} :
       \E formatRange \in {SelectionRange(range)} :
       \E allRanges \in {getModesInRangeOf(text, regions, formatRange)} :
       \E lead \in IF LeadingLoop(1, allRanges, formatRange.start, "none", <<>>, <<>>).calls
                        = <<>>
                    THEN {"none"} ELSE Behaviours :
       \E leading \in {LeadingLoop(1, allRanges, formatRange.start, lead, <<>>, <<>>)} :
       \E hostRange \in {[start |-> leading.startPos, end |-> formatRange.end]} :
           IF leading.threw
           THEN /\ call' = FormatCall(range, leading, TRUE, <<>>, FALSE, range, <<>>, FALSE,
                                      <<>>, NoEmbedded, {})
                /\ UNCHANGED tmpEntries
           ELSE IF leading.i > Len(allRanges)
           THEN /\ call' = FormatCall(range, leading, FALSE, leading.result, FALSE, range, <<>>,
                                      FALSE, <<>>, NoEmbedded, {})
                /\ UNCHANGED tmpEntries
           ELSE \E host \in Behaviours :
                \E htmlEdits \in {FormatterEdits(host, hostRange)} :
                \E html \in {applyEdits(text, htmlEdits)} :
                    IF host = "throw" \/ html.threw
                    THEN /\ call' = FormatCall(range, leading, TRUE, <<>>, TRUE, hostRange,
                                               <<>>, FALSE, <<>>, NoEmbedded, {})
                         /\ UNCHANGED tmpEntries
                    ELSE \E scripts \in BOOLEAN,
                            newRegs \in FormatRegionLists(Len(html.content),
                                                          MaxTemporaryRegions) :
                         \E embeddedRanges \in
                                {getModesInRangeOf(html.content, newRegs,
                                                   newFormatRange(hostRange, html.content))} :
                         \E behaviour \in
                                IF EmbeddedFormatLoop(1, embeddedRanges, "none", scripts,
                                                      <<>>, <<>>).calls = <<>>
                                THEN {"none"} ELSE Behaviours :
                         \E embedded \in {EmbeddedFormatLoop(1, embeddedRanges, behaviour,
                                                              scripts, <<>>, <<>>)} :
                             /\ call' = formatEmbedded(range, leading, hostRange, htmlEdits,
                                                       html.content, embedded)
                             /\ tmpEntries' = (tmpEntries \cup {"regions"}) \ RemovedCaches
    /\ UNCHANGED <<scanVars, modes, laterVars>>

\* ---------------------------------------------------- SemanticTokenProvider
beforeOrSame(p1, p2) ==
    p1.line < p2.line \/ (p1.line = p2.line /\ p1.character <= p2.character)

\* Array.prototype.sort by start line, then start character: a stable sort
\* of tokens or of ranges.
RECURSIVE SortByStart(_)
SortByStart(items) ==
    IF items = <<>> THEN <<>>
    ELSE LET n      == Len(items)
             sorted == SortByStart(SubSeq(items, 1, n - 1))
             k      == Cardinality({j \in DOMAIN sorted :
                                       ~Before(items[n].start, sorted[j].start)})
         IN SubSeq(sorted, 1, k) \o <<items[n]>> \o SubSeq(sorted, k + 1, Len(sorted))

\* encodeTokens' while loop: the index of currRange after the ranges that end
\* at or before start are passed; past the last range currRange is undefined.
RECURSIVE SkipRanges(_, _, _)
SkipRanges(rangeIndex, currentRanges, start) ==
    IF rangeIndex <= Len(currentRanges) /\ beforeOrSame(currentRanges[rangeIndex].end, start)
    THEN SkipRanges(rangeIndex + 1, currentRanges, start)
    ELSE rangeIndex

\* encodeTokens' test "token inside a range", and a variant that looks at
\* the token's start only.
TokenStartsInRange(curr, currRange) ==
    beforeOrSame(currRange.start, curr.start)

TokenInsideRange(curr, currRange) ==
    /\ beforeOrSame(currRange.start, curr.start)
    /\ beforeOrSame(Position(curr.start.line, curr.start.character + curr.length), currRange.end)

\* encodeTokens' deltas of a token, and a variant whose character is always
\* relative to the previous token's.
TokenDeltasSameLine(start, prefLine, prevChar) ==
    <<start.line - prefLine, start.character - prevChar>>

TokenDeltas(start, prefLine, prevChar) ==
    <<start.line - prefLine, start.character - (IF prefLine # start.line THEN 0 ELSE prevChar)>>

\* encodeTokens' for loop from the token k on.
RECURSIVE EncodeLoop(_, _, _, _, _, _, _)
EncodeLoop(k, resultTokens, currentRanges, rangeIndex, prefLine, prevChar, encodedResult) ==
    IF ~(k <= Len(resultTokens) /\ rangeIndex <= Len(currentRanges)) THEN encodedResult
    ELSE LET curr  == resultTokens[k]
             start == curr.start
             index == SkipRanges(rangeIndex, currentRanges, start)
         IN IF index <= Len(currentRanges) /\ TokenInsideRange(curr, currentRanges[index])
            THEN EncodeLoop(k + 1, resultTokens, currentRanges, index, start.line,
                            start.character,
                            encodedResult \o TokenDeltas(start, prefLine, prevChar)
                                          \o <<curr.length, curr.typeIdx, curr.modifierSet>>)
            ELSE EncodeLoop(k + 1, resultTokens, currentRanges, index, prefLine, prevChar,
                            encodedResult)

\* SemanticTokenProvider.encodeTokens(tokens, ranges)
encodeTokens(allTokens, ranges) ==
    EncodeLoop(1, SortByStart(allTokens), SortByStart(ranges), 1, 0, 0, <<>>)

\* The tokens of the backends: identifiers, which have a positive width.
SemanticTokens ==
    {[start |-> Position(line, character), length |-> length, typeIdx |-> typeIdx,
      modifierSet |-> modifierSet] :
        line \in 0..MaxTokenLine, character \in 0..MaxTokenCharacter,
        length \in 1..MaxTokenLength, typeIdx \in 0..MaxTypeIdx,
        modifierSet \in 0..MaxModifierSet}

\* The requested ranges: start before or same as end.
RequestRanges ==
    LET positions == {Position(line, character) :
                          line \in 0..MaxTokenLine,
                          character \in 0..(MaxTokenCharacter + MaxTokenLength)}
    IN {range \in [start : positions, end : positions] :
            beforeOrSame(range.start, range.end)}

CallEncodeTokens ==
    /\ Idle
    /\ \E allTokens \in UNION {[1..n -> SemanticTokens] : n \in 0..MaxTokens},
          ranges \in UNION {[1..n -> RequestRanges] : n \in 0..MaxRequestRanges} :
        call' = [op |-> "encodeTokens", tokens |-> allTokens, ranges |-> ranges,
                 result |-> encodeTokens(allTokens, ranges)]
    /\ UNCHANGED <<scanVars, modes, tmpEntries, laterVars>>

\* Array.prototype.indexOf, counted from 0: -1 if the entry is not there.
indexOf(list, entry) ==
    IF \E i \in DOMAIN list : list[i] = entry
    THEN (CHOOSE i \in DOMAIN list : list[i] = entry /\ \A j \in 1..(i - 1) : list[j] # entry) - 1
    ELSE 0 - 1

\* createMapping's loop from origIndex on (counted from 0).
RECURSIVE CreateMappingLoop(_, _, _, _, _)
CreateMappingLoop(origIndex, origLegend, newLegend, mapping, needsMapping) ==
    IF ~(origIndex < Len(origLegend))
    THEN [mapping |-> mapping, needsMapping |-> needsMapping, newLegend |-> newLegend]
    ELSE LET entry    == origLegend[origIndex + 1]
             found    == indexOf(newLegend, entry)
             newIndex == IF found = 0 - 1 THEN Len(newLegend) ELSE found
         IN CreateMappingLoop(origIndex + 1, origLegend,
                              IF found = 0 - 1 THEN Append(newLegend, entry) ELSE newLegend,
                              Append(mapping, newIndex),
                              needsMapping \/ newIndex # origIndex)

\* createMapping(origLegend, newLegend): the mapping, which is undefined
\* (defined is FALSE) if no index changes, and newLegend after the pushes;
\* and a variant that never records a mapping.
createMappingNotNeeded(origLegend, newLegend) ==
    LET loop == CreateMappingLoop(0, origLegend, newLegend, <<>>, FALSE)
    IN [defined |-> FALSE, mapping |-> <<>>, newLegend |-> loop.newLegend]

createMapping(origLegend, newLegend) ==
    LET loop == CreateMappingLoop(0, origLegend, newLegend, <<>>, FALSE)
    IN [defined |-> loop.needsMapping,
        mapping |-> IF loop.needsMapping THEN loop.mapping ELSE <<>>,
        newLegend |-> loop.newLegend]

\* The constructor's loop over the backends from index i on: legend is
\* this.legend, legendMappings holds this.legendMappings' entry of every
\* backend visited (present is FALSE if it has none).
RECURSIVE ConstructorLoop(_, _, _, _)
ConstructorLoop(i, allModes, legend, legendMappings) ==
    IF i > Len(allModes) THEN [legend |-> legend, legendMappings |-> legendMappings]
    ELSE LET mode == allModes[i] IN
         IF mode.getSemanticTokenLegend /\ mode.getSemanticTokens
         THEN LET modifiers == createMapping(mode.modifiers, legend.modifiers)
                  types     == createMapping(mode.types, legend.types)
              IN ConstructorLoop(i + 1, allModes,
                                 [modifiers |-> modifiers.newLegend, types |-> types.newLegend],
                                 Append(legendMappings,
                                        [present |-> TRUE,
                                         modifiers |-> [defined |-> modifiers.defined,
                                                        mapping |-> modifiers.mapping],
                                         types |-> [defined |-> types.defined,
                                                    mapping |-> types.mapping]]))
         ELSE ConstructorLoop(i + 1, allModes, legend,
                              Append(legendMappings,
                                     [present |-> FALSE,
                                      modifiers |-> [defined |-> FALSE, mapping |-> <<>>],
                                      types |-> [defined |-> FALSE, mapping |-> <<>>]]))

\* new SemanticTokenProvider(languageModes), allModes being getAllModes().
SemanticTokenProvider(allModes) ==
    ConstructorLoop(1, allModes, [modifiers |-> <<>>, types |-> <<>>], <<>>)

\* The backends the constructor is given: each with or without
\* getSemanticTokens and getSemanticTokenLegend, and its legend of types and
\* of modifiers.
LegendNames == {"a", "b"}

SemanticBackends ==
    [getSemanticTokens : BOOLEAN, getSemanticTokenLegend : BOOLEAN,
     types : UNION {[1..n -> LegendNames] : n \in 0..MaxLegendTypes},
     modifiers : UNION {[1..n -> LegendNames] : n \in 0..MaxLegendModifiers}]

CallSemanticTokenProvider ==
    /\ Idle
    /\ \E allModes \in UNION {[1..n -> SemanticBackends] : n \in 0..MaxBackends} :
        LET provider == SemanticTokenProvider(allModes)
        IN call' = [op |-> "SemanticTokenProvider", allModes |-> allModes,
                    legend |-> provider.legend, legendMappings |-> provider.legendMappings]
    /\ UNCHANGED <<scanVars, modes, tmpEntries, laterVars>>

\* ------------------------------------------------------------------- Cache
UriNames == <<"a", "b", "c", "d", "e">>

Uris == {UriNames[i] : i \in 1..MaxUris}

LanguageIds == {"htmlx", "html"}

\* Number.MAX_VALUE: above every timestamp.
MAX_VALUE == MaxTime + 1

\* The documents a cache is asked for: uri, version and languageId.
CacheDocuments == [uri : Uris, version : 1..MaxVersion, languageId : LanguageIds]

\* parse(document): the value depends on the document alone.
parse(document) == [parsed |-> document]

\* Map.get(key): the index of the entry of the key, 0 if there is none.
EntryIndex(map, uri) ==
    IF \E i \in DOMAIN map : map[i].key = uri
    THEN CHOOSE i \in DOMAIN map : map[i].key = uri
    ELSE 0

\* Map.set(key, entry): an existing key keeps its place in the iteration
\* order, a new key goes last.
MapSet(map, entry) ==
    IF EntryIndex(map, entry.key) # 0
    THEN [map EXCEPT ![EntryIndex(map, entry.key)] = entry]
    ELSE Append(map, entry)

\* Map.delete(key).
MapDelete(map, uri) == SelectSeq(map, LAMBDA e : e.key # uri)

\* The scan for the oldest entry of Cache.get: the first entry of the
\* smallest timestamp in iteration order ("" if the map is empty).
RECURSIVE OldestLoop(_, _, _)
OldestLoop(map, i, oldest) ==
    IF i > Len(map) THEN oldest
    ELSE OldestLoop(map, i + 1,
                    IF map[i].timestamp < oldest.timestamp
                    THEN [key |-> map[i].key, timestamp |-> map[i].timestamp]
                    ELSE oldest)

StaleIgnoresLanguage(map, document) ==
    \/ EntryIndex(map, document.uri) = 0
    \/ map[EntryIndex(map, document.uri)].version # document.version

\* The condition of Cache.get for parsing the document anew.
Stale(map, document) ==
    \/ EntryIndex(map, document.uri) = 0
    \/ map[EntryIndex(map, document.uri)].version # document.version
    \/ map[EntryIndex(map, document.uri)].languageId # document.languageId

\* The entries after Cache.get(document) at the given time.
EntriesAfterGet(map, document, time) ==
    IF Stale(map, document)
    THEN LET entry == [key |-> document.uri, languageId |-> document.languageId,
                       timestamp |-> time, value |-> parse(document),
                       version |-> document.version]
             set   == MapSet(map, entry)
             oldest == OldestLoop(set, 1, [key |-> "", timestamp |-> MAX_VALUE])
         IN IF Len(set) > maxEntries /\ oldest.key # ""
            THEN MapDelete(set, oldest.key)
            ELSE set
    ELSE map

\* The URIs in the order of their last use after a use of uri, restricted
\* to those that have an entry in map.
Touch(order, uri, map) ==
    SelectSeq(SelectSeq(order, LAMBDA u : u # uri) \o <<uri>>,
              LAMBDA u : EntryIndex(map, u) # 0)

\* Cache.get(document): parses, stores and evicts, or answers from the entry.
get ==
    /\ call = NoCall
    /\ \E document \in CacheDocuments :
       \E after \in {EntriesAfterGet(cacheEntries, document, now)} :
        /\ cacheEntries' = after
        /\ uses' = Touch(uses, document.uri, after)
        /\ call' = [op |-> "get", document |-> document, before |-> cacheEntries,
                    usesBefore |-> uses,
                    parsed |-> Stale(cacheEntries, document),
                    result |-> IF Stale(cacheEntries, document) THEN parse(document)
                               ELSE cacheEntries[EntryIndex(cacheEntries, document.uri)].value]
    /\ UNCHANGED <<scanVars, modes, tmpEntries, now, timer, timers, serverVars, hostVars>>

\* Cache.delete(document).
delete ==
    /\ call = NoCall
    /\ \E document \in CacheDocuments :
        /\ cacheEntries' = MapDelete(cacheEntries, document.uri)
        /\ uses' = SelectSeq(uses, LAMBDA u : u # document.uri)
        /\ call' = [op |-> "delete", document |-> document, before |-> cacheEntries]
    /\ UNCHANGED <<scanVars, modes, tmpEntries, now, timer, timers, serverVars, hostVars>>

NoTimer == 0 - 1

\* The entries Cache.cleanup leaves at the given time.
EntriesAfterCleanup(map, time) ==
    LET cutoffTime == time - cleanupInterval
    IN SelectSeq(map, LAMBDA e : ~(e.timestamp > cutoffTime))

\* Cache.cleanup, run by the interval timer; the timer fires no earlier than
\* it is due and is then due an interval later.
cleanup ==
    /\ call = NoCall
    /\ timer # NoTimer
    /\ now >= timer
    /\ \E after \in {EntriesAfterCleanup(cacheEntries, now)} :
        /\ cacheEntries' = after
        /\ uses' = SelectSeq(uses, LAMBDA u : EntryIndex(after, u) # 0)
    /\ timer' = now + cleanupInterval
    /\ call' = [op |-> "cleanup", before |-> cacheEntries, time |-> now]
    /\ UNCHANGED <<scanVars, modes, tmpEntries, now, timers, serverVars, hostVars>>

\* Cache.dispose: clearInterval(this.timer).
CacheDispose ==
    /\ call = NoCall
    /\ timer # NoTimer
    /\ timer' = NoTimer
    /\ call' = [op |-> "dispose"]
    /\ UNCHANGED <<scanVars, modes, tmpEntries, cacheEntries, now, uses, timers, serverVars, hostVars>>

\* Time passes.
Tick ==
    /\ call = NoCall
    /\ now < MaxTime
    /\ now' = now + 1
    /\ UNCHANGED <<scanVars, modes, tmpEntries, cacheEntries, timer, uses, timers, serverVars,
                   hostVars, call>>

\* ------------------------------------------------------------------ Server
\* documents.get(uri) of a URI no document is open under.
NoDocument == [version |-> Closed, languageId |-> "htmlx"]

\* pendingValidationRequests.get(uri): the entries of the URI.
PendingOf(pending, uri) == {request \in pending : request.uri = uri}

cleanPendingValidationKeepsTimer(pending, live, uri) ==
    [pending |-> pending \ PendingOf(pending, uri), timeouts |-> live]

\* cleanPendingValidation(textDocument): the request of the URI, if any, is
\* disposed (clearTimeout) and its entry deleted.
cleanPendingValidation(pending, live, uri) ==
    [pending |-> pending \ PendingOf(pending, uri),
     timeouts |-> {t \in live : \A request \in PendingOf(pending, uri) : t.id # request.timer}]

\* triggerValidation(textDocument): the pending request is cleaned, a timer
\* is set for the document and stored under its URI.
triggerValidation(pending, live, uri, version, id) ==
    LET cleaned == cleanPendingValidation(pending, live, uri)
    IN [pending |-> cleaned.pending \cup {[uri |-> uri, timer |-> id]},
        timeouts |-> cleaned.timeouts \cup {[id |-> id, uri |-> uri, version |-> version]}]

\* documents.onDidChangeContent: a document is opened under the URI, with
\* any version and language, or the open document changes and its version
\* grows; validation is triggered. The document object is updated in place
\* and a change reschedules within the same handler, so the timer records
\* the version the document has when the timer is set.
DidChangeContent ==
    /\ scheduled < MaxScheduled
    /\ \E uri \in ServerUris :
       \E document \in IF documents[uri].version = Closed
                       THEN [version : 1..MaxVersion, languageId : LanguageIds]
                       ELSE {[version |-> documents[uri].version + 1,
                              languageId |-> documents[uri].languageId]} :
       \E triggered \in {triggerValidation(pendingValidationRequests, timeouts, uri,
                                           document.version, scheduled + 1)} :
        /\ document.version <= MaxVersion
        /\ documents' = [documents EXCEPT ![uri] = document]
        /\ pendingValidationRequests' = triggered.pending
        /\ timeouts' = triggered.timeouts
        /\ scheduled' = scheduled + 1
        /\ call' = [op |-> "onDidChangeContent", uri |-> uri, version |-> document.version,
                    timer |-> scheduled + 1]
    /\ UNCHANGED <<scanVars, modes, tmpEntries, cacheVars, timers, validations, hostVars>>

\* documents.onDidClose: the pending request is cleaned and empty
\* diagnostics are published.
DidClose ==
    /\ \E uri \in ServerUris :
       \E cleaned \in {cleanPendingValidation(pendingValidationRequests, timeouts, uri)} :
        /\ documents[uri].version # Closed
        /\ documents' = [documents EXCEPT ![uri] = NoDocument]
        /\ pendingValidationRequests' = cleaned.pending
        /\ timeouts' = cleaned.timeouts
        /\ call' = [op |-> "sendDiagnostics", computed |-> FALSE, uri |-> uri,
                    version |-> Closed, timer |-> 0]
    /\ UNCHANGED <<scanVars, modes, tmpEntries, cacheVars, timers, validations, scheduled,
                   hostVars>>

\* The timer of triggerValidation fires: the entry of the URI is deleted and
\* validateTextDocument starts; it reads the version and, for an htmlx
\* document, awaits getDocumentSettings.
TimerFires ==
    /\ \E t \in timeouts :
        /\ timeouts' = timeouts \ {t}
        /\ pendingValidationRequests'
                = pendingValidationRequests \ PendingOf(pendingValidationRequests, t.uri)
        /\ validations' = IF documents[t.uri].languageId = "htmlx"
                          THEN validations \cup {t}
                          ELSE validations
        /\ call' = [op |-> "validateTextDocument", uri |-> t.uri, version |-> t.version,
                    timer |-> t.id]
    /\ UNCHANGED <<scanVars, modes, tmpEntries, cacheVars, timers, documents, scheduled,
                   hostVars>>

IsOpen(latestTextDocument, version) == latestTextDocument.version # Closed

\* latestTextDocument && latestTextDocument.version === version.
IsLatest(latestTextDocument, version) ==
    latestTextDocument.version # Closed /\ latestTextDocument.version = version

\* getDocumentSettings settles and validateTextDocument goes on: if the open
\* document has the version read at the start, doValidation runs and its
\* diagnostics are published, unless it throws; a rejected settings request
\* is logged.
SettingsResponse ==
    /\ \E run \in validations, rejected \in BOOLEAN, threw \in BOOLEAN :
        /\ validations' = validations \ {run}
        /\ call' = IF ~rejected /\ IsLatest(documents[run.uri], run.version) /\ ~threw
                   THEN [op |-> "sendDiagnostics", computed |-> TRUE, uri |-> run.uri,
                         version |-> run.version, timer |-> run.id]
                   ELSE [op |-> "validated", uri |-> run.uri, version |-> run.version,
                         timer |-> run.id]
    /\ UNCHANGED <<scanVars, modes, tmpEntries, cacheVars, timers, documents,
                   pendingValidationRequests, timeouts, scheduled, hostVars>>

\* ------------------------------------------------------ JsLanguageServiceHost
\* The URI and version of the document the backends are called with.
DocumentUri == "a"

DocumentVersion == 1

\* host.getLanguageService(jsDocument) followed by a call into the script
\* engine for jsDocument.uri: the host keeps the sub-document, and answers
\* getScriptVersion and getScriptSnapshot of its URI from it.
getLanguageService(language, jsDocument) ==
    /\ hostDocument' = [hostDocument EXCEPT ![language] = jsDocument]
    /\ snapshots' = snapshots \cup {[host |-> language, fileName |-> jsDocument.uri,
                                     version |-> jsDocument.version,
                                     text |-> jsDocument.text]}

\* A call of a JsLanguageMode that projects the sub-document of projected
\* with getEmbeddedDocument and asks the script engine about it; nothing
\* reaches the host if the projection throws.
JsLanguageModeCall(op, language, projected, ignoreAttributeValues) ==
    \E embedded \in {getEmbeddedDocument(text, regions, projected, ignoreAttributeValues)} :
        /\ call' = [op |-> op, language |-> language, threw |-> embedded.threw]
        /\ IF embedded.threw
           THEN UNCHANGED hostVars
           ELSE getLanguageService(language, [uri |-> DocumentUri, version |-> DocumentVersion,
                                              text |-> embedded.text])

\* JsLanguageMode.format(document, range, options, settings), as the leading
\* loop of LanguageService.format calls it with the document of the request
\* when the range starts in a region of the backend.
CallJsFormat ==
    /\ Idle
    /\ \E start \in RequestPositions, end \in RequestPositions :
       \E allRanges \in {getModesInRangeOf(text, regions,
                                           SelectionRange([start |-> start, end |-> end]))} :
       \E leading \in {LeadingLoop(1, allRanges, start, "none", <<>>, <<>>)} :
       \E i \in DOMAIN leading.calls :
        /\ leading.calls[i].mode \in {"javascript", "typescript"}
        /\ JsLanguageModeCall("JsLanguageMode.format", leading.calls[i].mode, "javascript", TRUE)
    /\ UNCHANGED <<scanVars, modes, tmpEntries, cacheVars, timers, serverVars>>

\* JsLanguageMode.doValidation(document, settings), which
\* LanguageService.doValidation calls on every backend; the other operations
\* project the sub-document the same way.
CallJsDoValidation ==
    /\ Idle
    /\ \E language \in {"javascript", "typescript"} \cap modes :
        JsLanguageModeCall("JsLanguageMode.doValidation", language, language, FALSE)
    /\ UNCHANGED <<scanVars, modes, tmpEntries, cacheVars, timers, serverVars>>

\* The state the later sections start from: the caches and the hosts as
\* their constructors leave them at time 0, no document open.
InitLater ==
    /\ cacheEntries = <<>>
    /\ now = 0
    /\ timer = cleanupInterval
    /\ uses = <<>>
    /\ timers = ServiceCaches
    /\ documents = [uri \in ServerUris |-> NoDocument]
    /\ pendingValidationRequests = {}
    /\ timeouts = {}
    /\ validations = {}
    /\ scheduled = 0
    /\ hostDocument = [language \in {"javascript", "typescript"} |-> InitDocument]
    /\ snapshots = {}

\* ------------------------------------------------------------- custom data
\* What requestService.getContent(path) comes to: the request is rejected,
\* or answers text that is no JSON, the JSON null, a JSON value that
\* newHTMLDataProvider throws on, an object without tags or an object with a
\* tag.
Responses == {"rejected", "no JSON", "null", "malformed", "no tags", "tags"}

DataPaths == {"p", "q"}

\* newHTMLDataProvider(id, { version: 1 }).
EmptyProvider(id) == [id |-> id, tags |-> {}]

\* parseHTMLData(id, source): JSON.parse is guarded; reading the properties
\* of null throws, and so does newHTMLDataProvider on malformed data.
parseHTMLData(id, source) ==
    CASE source = "no JSON" -> [threw |-> FALSE, provider |-> EmptyProvider(id)]
      [] source \in {"null", "malformed"} -> [threw |-> TRUE, provider |-> EmptyProvider(id)]
      [] source = "no tags" -> [threw |-> FALSE, provider |-> [id |-> id, tags |-> {}]]
      [] source = "tags" -> [threw |-> FALSE, provider |-> [id |-> id, tags |-> {"tag"}]]

\* The promise of one source without the try of the mapped function.
ProviderPromiseUnguarded(path, response) ==
    IF response = "rejected" \/ parseHTMLData(path, response).threw
    THEN [rejected |-> TRUE, value |-> EmptyProvider(path)]
    ELSE [rejected |-> FALSE, value |-> parseHTMLData(path, response).provider]

\* The promise of one source: the function mapped over dataPaths.
ProviderPromise(path, response) ==
    IF response = "rejected" \/ parseHTMLData(path, response).threw
    THEN [rejected |-> FALSE, value |-> EmptyProvider(path)]
    ELSE [rejected |-> FALSE, value |-> parseHTMLData(path, response).provider]

\* Promise.all(promises).
PromiseAll(promises) ==
    IF \E i \in DOMAIN promises : promises[i].rejected
    THEN [rejected |-> TRUE, value |-> <<>>]
    ELSE [rejected |-> FALSE, value |-> [i \in DOMAIN promises |-> promises[i].value]]

\* fetchHTMLDataProviders(dataPaths, requestService), responses[i] being what
\* getContent comes to for dataPaths[i].
fetchHTMLDataProviders(dataPaths, responses) ==
    PromiseAll([i \in DOMAIN dataPaths |-> ProviderPromise(dataPaths[i], responses[i])])

CallFetchHTMLDataProviders ==
    /\ Idle
    /\ \E n \in 0..MaxSources :
       \E dataPaths \in [1..n -> DataPaths], responses \in [1..n -> Responses] :
        call' = [op |-> "fetchHTMLDataProviders", dataPaths |-> dataPaths,
                 responses |-> responses,
                 result |-> fetchHTMLDataProviders(dataPaths, responses)]
    /\ UNCHANGED <<scanVars, modes, tmpEntries, laterVars>>

\* ------------------------------------------------------------------ runSafe
\* The handlers Server.start wraps with runSafe, each with its fallback.
Fallbacks ==
    [onLanguagesLinkedEditingRange |-> "null", onCompletion |-> "null",
     onCompletionResolve |-> "params", onDefinition |-> "null",
     onDocumentFormatting |-> "[]", onDocumentHighlight |-> "[]", onDocumentLinks |-> "[]",
     onDocumentRangeFormatting |-> "[]", onDocumentSymbol |-> "[]", onFoldingRanges |-> "[]",
     onHover |-> "null", onInitialize |-> "{ capabilities: { } }", onReferences |-> "[]",
     onRenameRequest |-> "null", onRequestAutoInsert |-> "null",
     onRequestColorPresentation |-> "[]", onRequestDocumentColor |-> "[]",
     onRequestSemanticToken |-> "[]", onSelectionRanges |-> "[]", onSignatureHelp |-> "null"]

WrappedHandlers == DOMAIN Fallbacks

\* The parameter of the handler has a textDocument: a CompletionItem and
\* InitializeParams have none.
HasTextDocument(fn) == fn \notin {"onCompletionResolve", "onInitialize"}

\* What the handler does: it returns or throws, or returns a promise that
\* resolves or rejects.
HandlerBehaviours == {"returns", "throws", "resolves", "rejects"}

Pending == [settled |-> FALSE, value |-> "none"]

\* resolve(value): the first call settles the promise, later ones do nothing.
Resolve(promise, value) ==
    IF promise.settled THEN promise ELSE [settled |-> TRUE, value |-> value]

\* onSuccess(value) of runSafe.
onSuccess(promise, cancelled) ==
    [promise |-> Resolve(promise, IF cancelled THEN "RequestCancelled" ELSE "result"),
     threw |-> FALSE]

\* onFailure(error) of runSafe: the message reads params.textDocument.uri
\* before resolve(fallback) is reached.
onFailure(promise, fn) ==
    IF HasTextDocument(fn)
    THEN [promise |-> Resolve(promise, Fallbacks[fn]), threw |-> FALSE]
    ELSE [promise |-> promise, threw |-> TRUE]

\* runSafe(fn, params, token, fallback): the promise it returns once the
\* setImmediate callback and the handler's promise are done, and whether an
\* exception left the callback or the promise chain uncaught. The token is
\* cancelled before the callback runs, before the handler is done, or never.
runSafe(fn, behaviour, cancelledAtStart, cancelledAtEnd) ==
    LET first == IF cancelledAtStart THEN Resolve(Pending, "RequestCancelled") ELSE Pending
        done  == IF behaviour \in {"returns", "resolves"}
                 THEN onSuccess(first, cancelledAtEnd)
                 ELSE onFailure(first, fn)
    IN [settled |-> done.promise.settled, value |-> done.promise.value,
        uncaught |-> done.threw]

CallRunSafe ==
    /\ Idle
    /\ \E fn \in WrappedHandlers, behaviour \in HandlerBehaviours,
          cancelledAtStart \in BOOLEAN, cancelledAtEnd \in BOOLEAN :
        /\ cancelledAtStart => cancelledAtEnd
        /\ call' = [op |-> "runSafe", fn |-> fn, behaviour |-> behaviour,
                    cancelledAtStart |-> cancelledAtStart, cancelledAtEnd |-> cancelledAtEnd,
                    result |-> runSafe(fn, behaviour, cancelledAtStart, cancelledAtEnd)]
    /\ UNCHANGED <<scanVars, modes, tmpEntries, laterVars>>

Init ==
    /\ text = <<>>
    /\ scanState = "Content"
    /\ tokens = <<>>
    /\ lastTagName = <<>>
    /\ lastAttributeName = NoName
    /\ languageIdFromType = Undefined
    /\ regions = <<>>
    /\ importedScripts = <<>>
    /\ modes = Handlers
    /\ tmpEntries = {}
    /\ InitLater
    /\ call = NoCall

Next == getRegions(MaxTags, MaxAttrs) \/ HTMLDocumentRegions \/ Return

\* Scanning a document and calling its region index.
Spec == Init /\ [][Next]_vars

NextScan == getRegions(MaxTags, MaxAttrs)

\* Scanning a document.
SpecScan == Init /\ [][NextScan]_vars

NextRanges ==
    getRegions(MaxCallTags, MaxCallAttrs) \/ Construct \/ CallGetLanguageRanges \/ Return

\* A region index, scanned or constructed, asked for its language ranges.
SpecRanges == Init /\ [][NextRanges]_vars

NextPosition ==
    getRegions(MaxCallTags, MaxCallAttrs) \/ Construct \/ CallGetLanguageAtPosition \/ Return

\* A region index, scanned or constructed, asked for the language at a
\* position.
SpecPosition == Init /\ [][NextPosition]_vars

NextService == getRegions(MaxServiceTags, MaxServiceAttrs) \/ LanguageService \/ Return

\* Scanning a document and calling the language service on it.
SpecService == Init /\ [][NextService]_vars

NextValidation ==
    getRegions(MaxServiceTags, MaxServiceAttrs) \/ CallDoValidation \/ Dispose \/ Return

\* Scanning a document and validating it.
SpecValidation == Init /\ [][NextValidation]_vars

\* The empty document, scanned.
InitScanned ==
    /\ text = <<>>
    /\ scanState = "EOS"
    /\ tokens = <<>>
    /\ lastTagName = <<>>
    /\ lastAttributeName = NoName
    /\ languageIdFromType = Undefined
    /\ regions = <<>>
    /\ importedScripts = <<>>
    /\ modes = Handlers
    /\ tmpEntries = {}
    /\ InitLater
    /\ call = NoCall

NextLimit == CallLimitRanges \/ Return

\* limitRanges applied to lists of folding ranges.
SpecLimit == InitScanned /\ [][NextLimit]_vars

NextFolding ==
    \/ getRegions(MaxServiceTags, MaxServiceAttrs)
    \/ Construct
    \/ CallGetFoldingRanges
    \/ Dispose
    \/ Return

\* A region index, scanned or constructed, asked for its folding ranges.
SpecFolding == Init /\ [][NextFolding]_vars

\* format over constructed documents.
NextFormat ==
    \/ ConstructFormat
    \/ CallFormat
    \/ Dispose
    \/ Return

SpecFormat == Init /\ [][NextFormat]_vars

\* encodeTokens over token lists and requested ranges.
NextEncode == CallEncodeTokens \/ Return

SpecEncode == InitScanned /\ [][NextEncode]_vars

\* The constructor of SemanticTokenProvider over lists of backends.
NextLegend == CallSemanticTokenProvider \/ Return

SpecLegend == InitScanned /\ [][NextLegend]_vars

NextCache == get \/ delete \/ cleanup \/ CacheDispose \/ Tick \/ Return

\* One Cache, asked for documents while time passes.
SpecCache == Init /\ [][NextCache]_vars

NextData == CallFetchHTMLDataProviders \/ Return

\* fetchHTMLDataProviders applied to lists of data sources.
SpecData == InitScanned /\ [][NextData]_vars

NextRunSafe == CallRunSafe \/ Return

\* runSafe applied to the wrapped handlers.
SpecRunSafe == InitScanned /\ [][NextRunSafe]_vars

NextServer == DidChangeContent \/ DidClose \/ TimerFires \/ SettingsResponse

\* Documents opened, changed and closed while validations are pending.
SpecServer == Init /\ [][NextServer]_vars

NextHost ==
    \/ getRegions(MaxServiceTags, MaxServiceAttrs)
    \/ CallJsFormat
    \/ CallJsDoValidation
    \/ Return

\* A scanned document whose script backends are asked to format and to
\* validate.
SpecHost == Init /\ [][NextHost]_vars

\* ------------------------------------------------------------------ claims
\* C1: getLanguageRanges over the whole document returns ranges that start
\* at offset 0, end at the document's length, each start where the one
\* before ends, and none ends before it starts; an empty document has no
\* range.
C1_RangesTileDocument ==
    call.op = "getLanguageRanges" =>
        LET r == call.result
        IN /\ (Len(text) > 0 => Len(r) > 0)
           /\ (Len(r) > 0 =>
                  /\ offsetAt(text, r[1].start) = 0
                  /\ offsetAt(text, r[Len(r)].end) = Len(text))
           /\ \A i \in 1..(Len(r) - 1) : r[i + 1].start = r[i].end
           /\ \A i \in DOMAIN r : offsetAt(text, r[i].start) <= offsetAt(text, r[i].end)

\* C1's case: the ranges of a document of more than one line with two
\* adjacent regions and host text beside them.
C1_Witness ==
    /\ call.op = "getLanguageRanges"
    /\ Len(call.result) >= 3
    /\ lineCount(text) > 1
    /\ \E i \in 1..(Len(regions) - 1) :
        /\ regions[i].start < regions[i].end
        /\ regions[i].end = regions[i + 1].start
        /\ regions[i + 1].start < regions[i + 1].end

\* The regions that contain an offset, ends included.
RegionsAt(offset) ==
    {i \in DOMAIN regions : regions[i].start <= offset /\ offset <= regions[i].end}

\* C5: getLanguageAtPosition returns the languageId of the first region in
\* list order with start <= offset <= end, and "html" if there is none.
C5_FirstRegionContaining ==
    call.op = "getLanguageAtPosition" =>
        LET hit == RegionsAt(offsetAt(text, call.position))
        IN call.result = IF hit = {} THEN "html"
                         ELSE regions[CHOOSE i \in hit : \A j \in hit : i <= j].languageId

\* C5's case: a call at the offset where a region ends and the next one,
\* of another language, starts.
C5_Witness ==
    /\ call.op = "getLanguageAtPosition"
    /\ \E i \in 1..(Len(regions) - 1) :
        /\ regions[i].end = offsetAt(text, call.position)
        /\ regions[i + 1].start = regions[i].end
        /\ regions[i].start < regions[i].end
        /\ regions[i + 1].languageId # regions[i].languageId
        /\ call.result = regions[i].languageId

\* The attribute value tokens scanned so far.
ValueTokens == {i \in DOMAIN tokens : tokens[i].type = "AttributeValue"}

\* The name of the attribute whose value is token i.
NameOfValue(i) == TokenText(tokens[i - 1])

\* The tag name of the start tag that token i belongs to.
TagOfToken(i) ==
    TokenText(tokens[CHOOSE j \in DOMAIN tokens :
                        tokens[j].type = "StartTag" /\ tokens[j].tag = tokens[i].tag])

\* The attribute value regions made for token i.
RegionsOfValue(i) ==
    {k \in DOMAIN regions :
        /\ regions[k].attributeValue
        /\ tokens[i].start <= regions[k].start
        /\ regions[k].start <= tokens[i].end}

\* on<word>, case-insensitively.
IsEventName(name) ==
    /\ Len(name) >= 3
    /\ name[1] \in {"o", "O"}
    /\ name[2] \in {"n", "N"}
    /\ \A i \in 3..Len(name) : name[i] \in WordChars

\* The text is surrounded by a pair of quote characters.
IsQuoted(value) == Len(value) >= 2 /\ value[1] \in Quotes /\ value[Len(value)] = value[1]

\* C6: the regions of a scanned document are sorted by start, do not
\* overlap, and each satisfies 0 <= start <= end <= document length.
C6_RegionsWellFormed ==
    scanState = "EOS" =>
        /\ \A i \in DOMAIN regions :
            /\ 0 <= regions[i].start
            /\ regions[i].start <= regions[i].end
            /\ regions[i].end <= Len(text)
        /\ \A i \in 1..(Len(regions) - 1) :
            /\ regions[i].start <= regions[i + 1].start
            /\ regions[i].end <= regions[i + 1].start

\* The values of the type attributes of the start tag that token i belongs to.
TypeValues(i) ==
    {j \in ValueTokens : tokens[j].tag = tokens[i].tag /\ NameOfValue(j) = N_type}

\* An attribute value without the quote characters around it.
Unquote(value) == IF IsQuoted(value) THEN SubSeq(value, 2, Len(value) - 1) ELSE value

\* The dialect of a script block whose opening tag is the one of token i.
DialectOfTag(i) ==
    IF TypeValues(i) = {} THEN "javascript"
    ELSE LET j == CHOOSE j \in TypeValues(i) : \A k \in TypeValues(i) : k <= j
             type == Unquote(TokenText(tokens[j]))
         IN IF type \in JavaScriptTypes THEN "javascript"
            ELSE IF type = T_textTypescript THEN "typescript"
            ELSE Undefined

\* C7: the region of a script block has the dialect of the type attribute
\* of the block's own opening tag: javascript without one or for module and
\* the JavaScript MIME types, typescript for text/typescript, undefined for
\* any other value.
C7_ScriptDialect ==
    \A i \in DOMAIN tokens :
        tokens[i].type = "Script" =>
            \E k \in DOMAIN regions :
                /\ ~regions[k].attributeValue
                /\ regions[k].start = tokens[i].start
                /\ regions[k].end = tokens[i].end
                /\ regions[k].languageId = DialectOfTag(i)

\* C8: every value of an attribute named style or on<word> has exactly one
\* attribute value region, css or javascript, and no value has two; the
\* region of a value between quotes is the text between them and the
\* region of an unquoted value is the value.
C8_OneRegionPerAttribute ==
    \A i \in ValueTokens :
        /\ Cardinality(RegionsOfValue(i)) <= 1
        /\ (NameOfValue(i) = N_style \/ IsEventName(NameOfValue(i))) =>
            /\ Cardinality(RegionsOfValue(i)) = 1
            /\ \A k \in RegionsOfValue(i) :
                /\ regions[k].languageId =
                      IF NameOfValue(i) = N_style THEN "css" ELSE "javascript"
                /\ IsQuoted(TokenText(tokens[i])) =>
                      /\ regions[k].start = tokens[i].start + 1
                      /\ regions[k].end = tokens[i].end - 1
                /\ TokenText(tokens[i])[1] \notin Quotes =>
                      /\ regions[k].start = tokens[i].start
                      /\ regions[k].end = tokens[i].end

\* C8's case: a quoted value of an event attribute and its region.
C8_Witness ==
    \E i \in ValueTokens :
        /\ IsEventName(NameOfValue(i))
        /\ IsQuoted(TokenText(tokens[i]))
        /\ Len(TokenText(tokens[i])) > 2
        /\ RegionsOfValue(i) # {}

\* The values of the src attributes of script tags, in scan order.
RECURSIVE SrcValues(_)
SrcValues(n) ==
    IF n = 0 THEN <<>>
    ELSE IF /\ tokens[n].type = "AttributeValue"
            /\ NameOfValue(n) = N_src
            /\ toLowerCase(TagOfToken(n)) = N_script
         THEN Append(SrcValues(n - 1), Unquote(TokenText(tokens[n])))
         ELSE SrcValues(n - 1)

\* C9: the src values of script tags are not regions, and importedScripts
\* lists them in scan order without the quote characters around them.
C9_ImportedScriptsUnquoted ==
    /\ importedScripts = SrcValues(Len(tokens))
    /\ \A i \in ValueTokens :
        (NameOfValue(i) = N_src /\ toLowerCase(TagOfToken(i)) = N_script) =>
            RegionsOfValue(i) = {}

\* The character at a position of a text, or "" if the text has none there.
CharAt(content, position) ==
    IF position.line >= lineCount(content) THEN ""
    ELSE LET o == LineOffset(content, position.line) + position.character
         IN IF o < Len(content) /\ positionAt(content, o) = position THEN content[o + 1] ELSE ""

\* C2: the text getEmbeddedDocument returns has the length and the number
\* of lines of the host document.
C2_SameLengthAndLines ==
    (call.op = "getEmbeddedDocument" /\ ~call.result.threw) =>
        /\ Len(call.result.text) = Len(text)
        /\ lineCount(call.result.text) = lineCount(text)

\* The regions getEmbeddedDocument copies for a language.
CopiedRegions(languageId, ignoreAttributeValues) ==
    {k \in DOMAIN regions :
        /\ regions[k].languageId = languageId
        /\ ~(ignoreAttributeValues /\ regions[k].attributeValue)}

\* C3: getEmbeddedDocument does not fail, and every character of a region
\* of the target language is in the returned text at the line and column
\* it has in the host document.
C3_RegionsKeepPosition ==
    call.op = "getEmbeddedDocument" =>
        /\ ~call.result.threw
        /\ \A k \in CopiedRegions(call.languageId, call.ignoreAttributeValues) :
            \A o \in regions[k].start..(regions[k].end - 1) :
                CharAt(call.result.text, positionAt(text, o)) = text[o + 1]

\* The defined languageIds of the first n regions, each once, in the order
\* of their first region.
RECURSIVE DistinctLanguages(_)
DistinctLanguages(n) ==
    IF n = 0 THEN <<>>
    ELSE LET before == DistinctLanguages(n - 1)
         IN IF regions[n].languageId = Undefined \/ Includes(before, regions[n].languageId)
            THEN before
            ELSE Append(before, regions[n].languageId)

\* C4: getLanguagesInDocument returns the distinct defined languageIds in
\* first-seen order, followed by "html".
C4_LanguagesThenHost ==
    call.op = "getLanguagesInDocument" =>
        call.result = Append(DistinctLanguages(Len(regions)), "html")

\* The language that governs a position: the one of the first region that
\* contains its offset, "html" outside of every region.
GoverningLanguage(position) ==
    LET hit == RegionsAt(offsetAt(text, position))
    IN IF hit = {} THEN "html"
       ELSE regions[CHOOSE i \in hit : \A j \in hit : i <= j].languageId

SingleTargetOperations ==
    {"doAutoInsert", "doComplete", "doHover", "doRename", "doSignatureHelp",
     "findDefinition", "findDocumentHighlight", "findReferences", "getColorPresentations"}

\* The value of an operation that has no answer.
NoAnswer(op) ==
    IF op = "doComplete" THEN EmptyCompletionList
    ELSE IF op \in {"findDocumentHighlight", "findReferences", "getColorPresentations"}
    THEN EmptyList
    ELSE Null

\* The language has a registered backend that implements the operation.
Served(languageId, op) ==
    /\ languageId \in modes
    /\ op \in (IF languageId = "html" THEN HtmlLanguageMode
               ELSE IF languageId = "css" THEN CssLanguageMode
               ELSE JsLanguageMode)

\* C10: a single-target operation called where the governing language has
\* no registered backend, or one without the operation, returns the
\* operation's no-answer value.
C10_NoBackendNoAnswer ==
    (call.op \in SingleTargetOperations /\ ~Served(GoverningLanguage(call.position), call.op)) =>
        call.result = NoAnswer(call.op)

\* C10's case: a call inside a script region of unrecognized dialect while
\* the backends are registered.
C10_Witness ==
    /\ call.op \in SingleTargetOperations
    /\ GoverningLanguage(call.position) = Undefined
    /\ modes = Handlers
    /\ call.result = NoAnswer(call.op)

\* The settings disable the diagnostics of a backend explicitly.
ExplicitlyDisabled(languageId, settings) ==
    /\ settings.validate
    /\ \/ languageId = "css" /\ settings.styles = "false"
       \/ languageId \in {"javascript", "typescript"} /\ settings.scripts = "false"

\* C11: doValidation returns the diagnostics of the registered backends
\* that implement doValidation, in registration order, without those whose
\* diagnostics the settings disable explicitly, and skips no other.
C11_ValidationSkipsOnlyDisabled ==
    call.op = "doValidation" =>
        call.result =
            SelectSeq(RegistrationOrder,
                      LAMBDA id : /\ id \in modes
                                  /\ id \in {"css", "javascript", "typescript"}
                                  /\ ~ExplicitlyDisabled(id, call.settings))

\* C12: before limiting, getFoldingRanges holds the host backend's ranges
\* and, for every language range that is neither host nor attribute value
\* and whose backend implements getFoldingRanges, every range of that
\* backend from the start line on that ends before the end line.
C12_FoldingFansOut ==
    call.op = "getFoldingRanges" =>
        /\ "html" \in modes => \A i \in DOMAIN call.host :
                \E j \in DOMAIN call.unlimited : call.unlimited[j] = call.host[i]
        /\ \A k \in DOMAIN getModesInRange :
            LET modeRange == getModesInRange[k]
            IN (/\ modeRange.mode \in {"css", "javascript", "typescript"}
                /\ ~modeRange.attributeValue) =>
                    \A i \in DOMAIN call.embedded :
                        (/\ call.embedded[i].startLine >= modeRange.start.line
                         /\ call.embedded[i].endLine < modeRange.end.line) =>
                            \E j \in DOMAIN call.unlimited :
                                call.unlimited[j] = call.embedded[i]

\* The number of times a range occurs in a list.
Occurrences(r, ranges) == Cardinality({i \in DOMAIN ranges : ranges[i] = r})

\* C19: limitRanges returns no more ranges than it was given, every
\* returned range as often at most as the input holds it, and the returned
\* ranges in ascending (start line, end line) order.
C19_LimitReturnsSublist ==
    call.op = "limitRanges" =>
        /\ Len(call.result) <= Len(call.ranges)
        /\ \A i \in DOMAIN call.result :
            Occurrences(call.result[i], call.result) <= Occurrences(call.result[i], call.ranges)
        /\ \A i \in 1..(Len(call.result) - 1) :
            \/ call.result[i].startLine < call.result[i + 1].startLine
            \/ /\ call.result[i].startLine = call.result[i + 1].startLine
               /\ call.result[i].endLine <= call.result[i + 1].endLine

\* C19's case: an unsorted list of which some ranges are returned and some
\* are not.
C19_Witness ==
    /\ call.op = "limitRanges"
    /\ call.ranges # SortRanges(call.ranges)
    /\ Len(call.result) >= 2
    /\ Len(call.result) < Len(call.ranges)

\* The indices of the sorted ranges that have the nesting level.
IndicesOfLevel(levels, level) == {i \in DOMAIN levels : levels[i] = level}

\* The levels at which the count of the ranges of the lower levels plus the
\* count at the level exceeds the maximum.
ExceedingLevels(levels, maxRanges) ==
    {level \in 0..(MaxCountedLevel - 1) :
        /\ IndicesOfLevel(levels, level) # {}
        /\ Cardinality({i \in DOMAIN levels : levels[i] # NoLevel /\ levels[i] <= level})
              > maxRanges}

\* C20: with L the least exceeding level, limitRanges returns, in sorted
\* order, the ranges of the levels below L and the first ranges of level L
\* that the maximum leaves room for, and no other; it never returns more
\* ranges than the maximum.
C20_LimitSelectsByLevel ==
    call.op = "limitRanges" =>
        LET sorted    == SortRanges(call.ranges)
            levels    == NestingLevels(sorted).nestingLevels
            exceeding == ExceedingLevels(levels, call.maxRanges)
            L         == CHOOSE level \in exceeding : \A other \in exceeding : level <= other
            below     == {i \in DOMAIN levels : levels[i] # NoLevel /\ levels[i] < L}
            quota     == call.maxRanges - Cardinality(below)
            atL       == {i \in IndicesOfLevel(levels, L) :
                            Cardinality({j \in IndicesOfLevel(levels, L) : j < i}) < quota}
            kept      == [i \in DOMAIN sorted |-> i \in below \cup atL]
        IN /\ Len(call.result) <= call.maxRanges
           /\ exceeding # {} =>
                [i \in DOMAIN call.result |-> <<call.result[i], TRUE>>] = SelectSeq([i \in DOMAIN sorted |-> <<sorted[i], kept[i]>>],
                                        LAMBDA p : p[2])

\* C20's case: a list nested three deep of which the deepest range is cut.
C20_Witness ==
    /\ call.op = "limitRanges"
    /\ ExceedingLevels(NestingLevels(SortRanges(call.ranges)).nestingLevels, call.maxRanges)
          = {2}
    /\ Len(call.result) = 2

\* The formatter invocations the leading pass of format owes to a request:
\* one for every language range before the first range of the host backend
\* that is no attribute value and whose backend exposes format, over the
\* range from the end of the range before it (the request's start for the
\* first) to its own end.
LeadingInvocations(range) ==
    LET formatRange == SelectionRange(range)
        ranges      == getModesInRangeOf(text, regions, formatRange)
        leadingEnd  == CHOOSE k \in 0..Len(ranges) :
                           /\ \A i \in 1..k : ranges[i].mode # "html"
                           /\ k < Len(ranges) => ranges[k + 1].mode = "html"
        formatted   == {i \in 1..leadingEnd :
                           /\ ~ranges[i].attributeValue
                           /\ ranges[i].mode # Undefined
                           /\ Implements(ranges[i].mode, "format")}
        nth(j)      == CHOOSE i \in formatted : Cardinality({m \in formatted : m < i}) = j - 1
        cursor(i)   == IF i = 1 THEN formatRange.start ELSE ranges[i - 1].end
    IN [j \in 1..Cardinality(formatted) |->
            [mode |-> ranges[nth(j)].mode,
             range |-> [start |-> cursor(nth(j)), end |-> ranges[nth(j)].end]]]

\* The edits a list of formatter invocations yields if every formatter behaves alike.
RECURSIVE EditsOf(_, _)
EditsOf(behaviour, calls) ==
    IF calls = <<>> THEN <<>>
    ELSE FormatterEdits(behaviour, Head(calls).range) \o EditsOf(behaviour, Tail(calls))

\* C13: in format the host formatter is invoked only over a range that
\* begins where a host-language range of the request begins; before it, the
\* backends of the ranges that precede the first host range are invoked in
\* order over [cursor, range end], exactly those that are no attribute value
\* and expose format, and their edits are accumulated; if no range belongs to
\* the host backend, format returns the accumulated edits, the host formatter
\* is not invoked and no temporary document is created.
C13_HostStartsAtHostRange ==
    call.op = "format" =>
        LET formatRange == SelectionRange(call.range)
            languages   == getLanguageRanges(text, regions, formatRange)
            ranges      == getModesInRangeOf(text, regions, formatRange)
            owed        == LeadingInvocations(call.range)
        IN /\ call.hostCalled =>
                \E i \in DOMAIN languages :
                    /\ languages[i].languageId = "html"
                    /\ languages[i].start = call.hostRange.start
           /\ Len(call.leadingCalls) <= Len(owed)
           /\ \A j \in DOMAIN call.leadingCalls : call.leadingCalls[j] = owed[j]
           /\ ~call.threw =>
                /\ call.leadingCalls = owed
                /\ \E behaviour \in Behaviours :
                       call.leadingEdits = EditsOf(behaviour, call.leadingCalls)
           /\ (\A i \in DOMAIN ranges : ranges[i].mode # "html") =>
                /\ ~call.hostCalled
                /\ ~call.tmpCreated
                /\ ~call.threw => call.result = call.leadingEdits

\* A format whose leading pass asked a backend and moved the cursor before
\* the host formatter was invoked.
C13_Witness ==
    /\ call.op = "format"
    /\ ~call.threw
    /\ call.leadingCalls # <<>>
    /\ call.leadingEdits # <<>>
    /\ call.hostCalled
    /\ call.hostRange.start # call.range.start

\* C14: when the embedded pass yields no edit, format emits the host edits
\* as they are; otherwise it emits one replacement for the host part, whose
\* range is the one the host formatter was given, and applying it to the
\* document yields the text that the host edits followed by the embedded
\* edits yield, the text before and after the range unchanged.
C14_StitchedEditEquivalent ==
    (call.op = "format" /\ call.tmpCreated /\ ~call.threw) =>
        LET n == Len(call.leadingEdits) IN
        /\ call.newContent = applyEdits(text, call.htmlEdits).content
        /\ IF call.embeddedEdits = <<>>
           THEN call.result = call.leadingEdits \o call.htmlEdits
           ELSE /\ Len(call.result) = n + 1
                /\ SubSeq(call.result, 1, n) = call.leadingEdits
                /\ LET edit     == call.result[n + 1]
                       stitched == applyEdits(text, <<edit>>)
                       expected == applyEdits(call.newContent, call.embeddedEdits)
                       from     == offsetAt(text, call.hostRange.start)
                       after    == Len(text) - offsetAt(text, call.hostRange.end)
                   IN /\ edit.range = call.hostRange
                      /\ ~stitched.threw
                      /\ stitched.content = expected.content
                      /\ substring(stitched.content, 0, from) = substring(text, 0, from)
                      /\ substring(stitched.content, Len(stitched.content) - after,
                                   Len(stitched.content))
                             = substring(text, Len(text) - after, Len(text))

\* A format that stitched host edits and embedded edits into one edit, with
\* text left after the range.
C14_Witness ==
    /\ call.op = "format"
    /\ ~call.threw
    /\ call.htmlEdits # <<>>
    /\ call.embeddedEdits # <<>>
    /\ offsetAt(text, call.hostRange.end) < Len(text)
    /\ call.newContent # text

\* C15: no cache of a backend holds an entry keyed by the URI of a
\* temporary document of format once format has returned or thrown, whatever
\* the exit path of the call that created it.
C15_TemporaryDocumentRemoved ==
    /\ tmpEntries = {}
    /\ (call.op = "format" /\ call.tmpCreated) => call.registered \subseteq RemovedCaches

\* A format that threw in the embedded pass after the temporary document was
\* cached in the region index.
C15_Witness ==
    /\ call.op = "format"
    /\ call.tmpCreated
    /\ call.threw
    /\ call.registered # {}
    /\ tmpEntries = {}

\* The tokens a number stream of encodeTokens stands for: five numbers a
\* token, the line relative to the token before, the character relative to
\* it on the same line and absolute after a line change.
RECURSIVE DecodeTokens(_, _, _)
DecodeTokens(stream, line, character) ==
    IF Len(stream) < 5 THEN <<>>
    ELSE LET tokenLine == line + stream[1]
             tokenChar == IF stream[1] = 0 THEN character + stream[2] ELSE stream[2]
         IN <<[start |-> Position(tokenLine, tokenChar), length |-> stream[3],
               typeIdx |-> stream[4], modifierSet |-> stream[5]]>>
            \o DecodeTokens(SubSeq(stream, 6, Len(stream)), tokenLine, tokenChar)

\* The token's extent lies inside one of the ranges.
WithinSomeRange(token, ranges) ==
    \E i \in DOMAIN ranges :
        /\ beforeOrSame(ranges[i].start, token.start)
        /\ beforeOrSame(Position(token.start.line, token.start.character + token.length),
                        ranges[i].end)

\* No two of the ranges overlap.
NonOverlapping(ranges) ==
    \A i, j \in DOMAIN ranges :
        i # j => beforeOrSame(ranges[i].end, ranges[j].start)
                     \/ beforeOrSame(ranges[j].end, ranges[i].start)

\* s is t with some elements left out.
RECURSIVE IsSubsequence(_, _)
IsSubsequence(s, t) ==
    IF s = <<>> THEN TRUE
    ELSE IF t = <<>> THEN FALSE
    ELSE IF Head(s) = Head(t) THEN IsSubsequence(Tail(s), Tail(t))
    ELSE IsSubsequence(s, Tail(t))

C17_OnlyWholeTokensEmitted ==
    call.op = "encodeTokens" =>
        LET emitted == DecodeTokens(call.result, 0, 0)
        IN /\ Len(call.result) = 5 * Len(emitted)
           /\ \A i \in DOMAIN emitted : WithinSomeRange(emitted[i], call.ranges)
           /\ IsSubsequence(emitted, SortByStart(call.tokens))

\* A token that straddles two touching ranges is omitted and the token after
\* it on the same line is emitted.
C17_Witness ==
    /\ call.op = "encodeTokens"
    /\ Len(call.ranges) = 2
    /\ call.ranges[1].end = call.ranges[2].start
    /\ Len(call.tokens) = 2
    /\ Before(call.tokens[1].start, call.ranges[1].end)
    /\ Before(call.ranges[1].end,
              Position(call.tokens[1].start.line,
                       call.tokens[1].start.character + call.tokens[1].length))
    /\ call.tokens[2].start.line = call.tokens[1].start.line
    /\ call.tokens[2].start.character > call.tokens[1].start.character
    /\ DecodeTokens(call.result, 0, 0) = <<call.tokens[2]>>

\* The shared-legend index of the backend-local index i (both counted from 0)
\* under a recorded mapping.
SharedIndex(recorded, i) == IF recorded.defined THEN recorded.mapping[i + 1] ELSE i

\* Every local name is found in the shared legend at its mapped index.
LegendMapped(local, recorded, shared) ==
    \A i \in 0..(Len(local) - 1) :
        /\ SharedIndex(recorded, i) \in 0..(Len(shared) - 1)
        /\ shared[SharedIndex(recorded, i) + 1] = local[i + 1]

IsPrefixOf(s, t) == Len(s) <= Len(t) /\ s = SubSeq(t, 1, Len(s))

\* C18: after the constructor of SemanticTokenProvider, the shared legend
\* has no name twice; for every backend with a legend and every local index
\* the shared name at the mapped index, or at the index itself if no mapping
\* is recorded, is the backend's local name, for types and for modifiers;
\* and the backends after the first k only append to the legend the first k
\* built and leave their mappings as they were.
C18_LegendUnified ==
    call.op = "SemanticTokenProvider" =>
        /\ \A i, j \in DOMAIN call.legend.types :
               call.legend.types[i] = call.legend.types[j] => i = j
        /\ \A i, j \in DOMAIN call.legend.modifiers :
               call.legend.modifiers[i] = call.legend.modifiers[j] => i = j
        /\ Len(call.legendMappings) = Len(call.allModes)
        /\ \A b \in DOMAIN call.allModes :
               LET mode == call.allModes[b]
               IN IF mode.getSemanticTokenLegend /\ mode.getSemanticTokens
                  THEN /\ call.legendMappings[b].present
                       /\ LegendMapped(mode.types, call.legendMappings[b].types,
                                       call.legend.types)
                       /\ LegendMapped(mode.modifiers, call.legendMappings[b].modifiers,
                                       call.legend.modifiers)
                  ELSE ~call.legendMappings[b].present
        /\ \A k \in 0..Len(call.allModes) :
               LET first == SemanticTokenProvider(SubSeq(call.allModes, 1, k))
               IN /\ IsPrefixOf(first.legend.types, call.legend.types)
                  /\ IsPrefixOf(first.legend.modifiers, call.legend.modifiers)
                  /\ first.legendMappings = SubSeq(call.legendMappings, 1, k)

\* Two backends with legends: the first needs no mapping, the second names
\* the first's types in another order and gets one.
C18_Witness ==
    /\ call.op = "SemanticTokenProvider"
    /\ Len(call.allModes) = 2
    /\ call.legendMappings[1].present
    /\ call.legendMappings[2].present
    /\ ~call.legendMappings[1].types.defined
    /\ call.legendMappings[2].types.defined
    /\ Len(call.legend.types) = 2
    /\ Len(call.allModes[2].types) = 2

\* C30: when limitRanges is given more ranges than the maximum and the
\* ranges that receive a nesting level are not more than the maximum, it
\* returns every one of them, in sorted order.
C30_LeveledRangesReturned ==
    (call.op = "limitRanges" /\ Len(call.ranges) > call.maxRanges) =>
        LET sorted  == SortRanges(call.ranges)
            levels  == NestingLevels(sorted).nestingLevels
            leveled == {i \in DOMAIN levels : levels[i] # NoLevel}
        IN Cardinality(leveled) <= call.maxRanges =>
               /\ Len(call.result) = Cardinality(leveled)
               /\ \A i \in leveled : Occurrences(sorted[i], call.result) >= 1

\* The map holds an entry made for the document: same URI, version and
\* declared language.
HoldsEntryFor(map, document) ==
    \E i \in DOMAIN map :
        /\ map[i].key = document.uri
        /\ map[i].version = document.version
        /\ map[i].languageId = document.languageId

\* C21: Cache.get parses and replaces the entry exactly when the cache
\* holds no entry of the document's URI, version and languageId, and
\* otherwise answers the stored value and leaves the entries alone; there is
\* at most one entry per URI, each entry holds the value parsed for its URI,
\* version and languageId, and get returns the value parsed for the document.
C21_ParseOrReturnCached ==
    /\ \A i, j \in DOMAIN cacheEntries :
            cacheEntries[i].key = cacheEntries[j].key => i = j
    /\ \A i \in DOMAIN cacheEntries :
            cacheEntries[i].value
                = parse([uri |-> cacheEntries[i].key, version |-> cacheEntries[i].version,
                         languageId |-> cacheEntries[i].languageId])
    /\ call.op = "get" =>
        /\ call.parsed <=> ~HoldsEntryFor(call.before, call.document)
        /\ call.result = parse(call.document)
        /\ HoldsEntryFor(call.before, call.document) => cacheEntries = call.before
        /\ ~HoldsEntryFor(call.before, call.document) =>
                /\ HoldsEntryFor(cacheEntries, call.document)
                /\ cacheEntries[EntryIndex(cacheEntries, call.document.uri)].timestamp = now

\* A get answered from the entry of a document while the cache is full,
\* after time has passed.
C21_Witness ==
    /\ call.op = "get"
    /\ ~call.parsed
    /\ Len(cacheEntries) = maxEntries
    /\ call.document.languageId = "html"
    /\ now > 0

\* C22: the cache never holds more than maxEntries entries, and an
\* insertion that takes the size above the bound evicts the least recently
\* used entry, a get answered from the cache counting as a use.
C22_BoundedLeastRecentlyUsed ==
    /\ Len(cacheEntries) <= maxEntries
    /\ (/\ call.op = "get"
        /\ EntryIndex(call.before, call.document.uri) = 0
        /\ Len(call.before) = maxEntries) =>
            /\ EntryIndex(cacheEntries, Head(call.usesBefore)) = 0
            /\ \A i \in DOMAIN call.before :
                    call.before[i].key # Head(call.usesBefore)
                        => EntryIndex(cacheEntries, call.before[i].key) # 0

\* C23: a sweep removes every entry older than the sweep interval and keeps
\* every entry younger than it.
C23_SweepRemovesOld ==
    call.op = "cleanup" =>
        \A i \in DOMAIN call.before :
            LET age == call.time - call.before[i].timestamp
            IN /\ age > cleanupInterval => EntryIndex(cacheEntries, call.before[i].key) = 0
               /\ age < cleanupInterval => EntryIndex(cacheEntries, call.before[i].key) # 0

\* C28: once LanguageService.dispose has returned, the interval timer of
\* every Cache of the service and its backends is cleared.
C28_DisposeClearsEveryTimer ==
    modes = {} => \A cache \in ServiceCaches : cache \notin timers

\* C24: fetchHTMLDataProviders resolves with one provider per requested
\* source, in the order of the request; a source that cannot be fetched or
\* is no valid JSON yields the empty provider of that source, and the
\* provider of a source is the one a request for that source alone yields,
\* whatever the other sources come to.
C24_OneProviderPerSource ==
    call.op = "fetchHTMLDataProviders" =>
        /\ ~call.result.rejected
        /\ Len(call.result.value) = Len(call.dataPaths)
        /\ \A i \in DOMAIN call.dataPaths :
            /\ call.result.value[i].id = call.dataPaths[i]
            /\ call.responses[i] \in {"rejected", "no JSON"}
                    => call.result.value[i] = EmptyProvider(call.dataPaths[i])
            /\ call.responses[i] = "tags" => call.result.value[i].tags # {}
            /\ <<call.result.value[i]>>
                    = fetchHTMLDataProviders(<<call.dataPaths[i]>>, <<call.responses[i]>>).value

\* A batch whose first source cannot be fetched and whose second has tags.
C24_Witness ==
    /\ call.op = "fetchHTMLDataProviders"
    /\ Len(call.dataPaths) = MaxSources
    /\ call.responses[1] = "rejected"
    /\ call.responses[MaxSources] = "tags"
    /\ call.result.value[MaxSources].tags # {}

\* C25: for every wrapped handler, a request that is not cancelled and whose
\* handler throws or whose promise rejects is answered with the handler's
\* fallback: the promise of runSafe resolves with it and no exception is
\* left uncaught.
C25_FailureResolvesWithFallback ==
    (/\ call.op = "runSafe"
     /\ call.behaviour \in {"throws", "rejects"}
     /\ ~call.cancelledAtEnd) =>
        /\ call.result.settled
        /\ call.result.value = Fallbacks[call.fn]
        /\ ~call.result.uncaught

\* C26: computed diagnostics are published for a URI only while a document
\* is open under it whose version is the one the validation run read at its
\* start.
C26_PublishesLatestVersionOnly ==
    (call.op = "sendDiagnostics" /\ call.computed) =>
        /\ documents[call.uri].version # Closed
        /\ documents[call.uri].version = call.version

\* Diagnostics published for a document that was changed and validated
\* again while an earlier run was still awaiting its settings.
C26_Witness ==
    /\ call.op = "sendDiagnostics"
    /\ call.computed
    /\ call.version > 1
    /\ \E run \in validations : run.uri = call.uri /\ run.version < call.version

\* C27: each URI has at most one pending timer; pendingValidationRequests
\* holds an entry for a URI exactly while a timer of it is pending, and the
\* entry is that timer; the pending timer was set by the last change of the
\* open document, so a validation run starts for the last change only, when
\* no timer of its URI is pending any more.
C27_OneTimerPerUri ==
    /\ \A t1 \in timeouts, t2 \in timeouts : t1.uri = t2.uri => t1 = t2
    /\ \A request \in pendingValidationRequests :
            \E t \in timeouts : t.id = request.timer /\ t.uri = request.uri
    /\ \A t \in timeouts :
            /\ [uri |-> t.uri, timer |-> t.id] \in pendingValidationRequests
            /\ documents[t.uri].version = t.version
    /\ call.op = "validateTextDocument" =>
            /\ documents[call.uri].version = call.version
            /\ \A t \in timeouts : t.uri # call.uri
            /\ PendingOf(pendingValidationRequests, call.uri) = {}

\* A validation run started after a burst of changes to a document.
C27_Witness ==
    /\ call.op = "validateTextDocument"
    /\ call.version = MaxVersion
    /\ call.timer = MaxScheduled
    /\ scheduled = MaxScheduled

\* C29: a host never returns two different texts for one file name and
\* script version.
C29_OneTextPerVersion ==
    \A s1 \in snapshots, s2 \in snapshots :
        (s1.host = s2.host /\ s1.fileName = s2.fileName /\ s1.version = s2.version)
            => s1.text = s2.text
====
